---- MODULE Spec2Model ----
(***************************************************************************)
(* Edna: the audio-gated voice pipeline (src/src/main.cpp) and its state   *)
(* machine (src/src/state_machine.cpp).                                    *)
(*                                                                         *)
(* Three threads share the state machine and two queues:                   *)
(*   - the main thread runs the audio/VAD loop (main.cpp 437-530),         *)
(*   - asr_thread turns utterances into commands (main.cpp 332-392),       *)
(*   - brain_thread turns commands into replies and speaks them            *)
(*     (main.cpp 223-329).                                                 *)
(* A step of the model is one access to shared data (a dispatch, a state   *)
(* read, a queue operation under its lock) together with the thread-local  *)
(* code around it.  Audio is counted in 20 ms frames.                      *)
(***************************************************************************)
EXTENDS Integers, Sequences, FiniteSets, TLC

(***************************************************************************)
(* Bounds of the model (not program constants).                            *)
(***************************************************************************)
\* The VAD stops reporting voice once the utterance holds this many frames.
MaxUttFrames == 15
\* While not in speech the VAD reports voice only on frames that leave the
\* pre-roll at most this many frames short of full.
PrerollSlack == 0
\* asr_thread does not append to text_q beyond this length.
MaxTextQ == 2
\* A reply is split into at most this many sentence chunks.
MaxChunks == 2
\* Threads dispatching arbitrary events in the state-machine harness.
NumSmThreads == 2
\* In the segmenter specification the VAD stops reporting voice once the
\* utterance holds this many frames (more than 10 s of audio).
LongUttFrames == 505
\* A recorded history holds at most this many entries.
MaxLog == 8
\* Threads calling the member functions of CoquiTTS.
NumTtsThreads == 2
\* Synthesis workers spawned in one run.
MaxWorkers == 2
\* Calls of dispatch or state() nested in one thread (a call made by the
\* observer is nested in the dispatch that invoked the observer).
MaxNesting == 2
\* LlamaBrain instances constructed and destroyed in one run.
NumBrains == 3
\* Words in a transcript handed to strip_invocation.
MaxWords == 3
\* Characters in a string handed to normalize.
MaxNormLen == 4
\* Characters in a short reply handed to split_sentences.
MaxSplitLen == 6
\* Tokens in a tokenized prompt.
MaxToks == 22
\* Stage events recorded in a run that follows hand-offs between stages.
MaxStageLog == 6

(***************************************************************************)
(* Program constants.                                                      *)
(***************************************************************************)
frame_ms == 20
tts_cooldown_ms == 600
cooldown_frames == (tts_cooldown_ms + frame_ms - 1) \div frame_ms
preroll_frames == 15
start_trigger == 3
stop_trigger == 20
\* secs >= 0.20 at 16 kHz with 320-sample frames: at least 10 frames.
min_utt_frames == (200 + frame_ms - 1) \div frame_ms

States ==
    {"Boot", "AwaitSpeech", "CapturingSpeech", "Transcribing", "Thinking",
     "Speaking", "Error", "Shutdown"}

Events ==
    {"Start", "SpeechStart", "SpeechEndQueued", "TranscriptReady",
     "ReplyReady", "TtsDone", "Stop", "NoCommand", "Fail"}

VARIABLES
    \* ---- shared program state
    st_,                \* EdnaStateMachine::st_
    g_running,          \* std::atomic<bool> g_running
    audio_q,            \* deque of utterances (frame counts), audio -> ASR
    text_q,             \* deque of commands, ASR -> brain
    enabled_,           \* CoquiTTS::enabled_
    \* ---- main thread: audio + VAD loop
    a_pc,               \* "boot", "read", "gate", "seg", "enq", "join", "exit"
    st,                 \* const auto st = sm.state(); a local of one loop
                        \* turn, "none" outside one
    in_speech,
    voiced_run,
    unvoiced_run,
    utterance,          \* frames in the utterance buffer
    preroll,            \* frames in the pre-roll buffer
    ignore_frames,
    last_was_speaking,
    \* ---- asr_thread
    asr_pc,             \* "wait", "transcribe", "enq", "done"
    audio,              \* the utterance taken from audio_q (frames); a fresh
                        \* local of every loop turn, 0 outside one
    cmd,                \* the command cut out of the transcript; <<>> outside
                        \* a loop turn
    \* ---- brain_thread
    brain_pc,           \* "wait", "reply", "speak", "done"
    parts_left,         \* sentence chunks still to be spoken
    \* ---- state-machine harness threads
    sm_pc,              \* per thread: "idle" or "notify"
    sm_pend,            \* per thread: the observer call it still has to make
    \* ---- history (not program state)
    ref,                \* the transition table applied to the events so far
    owed,               \* frames still to be discarded after a Speaking read
    owed_sm,            \* frames still to be discarded after the state machine
                        \* left Speaking (0 again once one was let through)
    early_fin,          \* the finalized utterance is "early" (finalized in Transcribing or Thinking)
    early_q,            \* ... the queued utterance is
    early_asr,          \* ... the utterance asr_thread holds is
    \* ---- recorded history (not program state); what is recorded is fixed
    \* ---- by watch, which never changes
    watch,              \* "none", "seg", "audio", "asr", "brain", "turn",
                        \* "stages" or "vad"
    log,                \* the dispatches of the watched thread(s)
    stream,             \* "seg": the shape of the frame stream so far
    win,                \* "seg": the last three frames
    heard,              \* "asr": the transcript; "brain": the reply
    \* ---- CoquiTTS, its callers and the processes around it
    proc,               \* the Edna process: "running", or "killed" by SIGPIPE
    sigpipe,            \* the disposition of SIGPIPE the process inherited:
                        \* "default" (terminate) or "ignored"
    m_,                 \* CoquiTTS::m_: 0 free, else the thread holding it
    worker_,            \* CoquiTTS::worker_
    last_err_,          \* CoquiTTS::last_err_
    kids,               \* per pid, the worker child: "unborn", "alive",
                        \* "exited" (not yet reaped) or "reaped"
    tts_pc,             \* per caller: "idle", "lock", "locked", "write",
                        \* "read", "play"
    tts_op,             \* per caller: the member function it is in
    tts_ret,            \* per caller: what its last call returned
    \* ---- history of CoquiTTS (not program state)
    found_dead,         \* a call has found the worker dead or unusable
    tts_wrote,          \* per caller: the current call wrote to a pipe
    bare,               \* the guarded fields written without m_ held
    \* ---- a function of the program applied to an argument
    f_pc,               \* "idle" (none), "ready" (argument drawn), "done"
    f_arg,              \* the argument
    f_res,              \* the result, once f_pc is "done"
    \* ---- EdnaStateMachine with its mutex and an observer that calls back
    sm_m,               \* EdnaStateMachine::m_: 0 free, else the holder
    sm_stack,           \* per thread: its calls of dispatch and state(),
                        \* the innermost last
    \* ---- the llama backend shared by the LlamaBrain instances
    g_backend_refcnt,   \* std::atomic<int> g_backend_refcnt
    g_backend_once,     \* std::once_flag g_backend_once: TRUE once used
    backend,            \* "uninit", "init" (llama_backend_init has run) or
                        \* "freed" (llama_backend_free has run since)
    be_pc               \* per LlamaBrain instance: "none" (not there),
                        \* "once" (constructor past call_once), "held"
                        \* (constructed), "freeing" (destructor past the
                        \* fetch_sub that returned 1)

progVars == <<st_, g_running, audio_q, text_q, enabled_>>
audioVars ==
    <<a_pc, st, in_speech, voiced_run, unvoiced_run, utterance,
      preroll, ignore_frames, last_was_speaking>>
asrVars == <<asr_pc, audio, cmd>>
brainVars == <<brain_pc, parts_left>>
smVars == <<sm_pc, sm_pend>>
histVars == <<ref, owed, owed_sm, early_fin, early_q, early_asr>>
obsVars == <<watch, log, stream, win, heard>>
obsRest == <<watch, stream, win, heard>>
ttsVars ==
    <<proc, sigpipe, m_, worker_, last_err_, kids, tts_pc, tts_op, tts_ret,
      found_dead, tts_wrote, bare>>
fnVars == <<f_pc, f_arg, f_res>>
reVars == <<sm_m, sm_stack>>
beVars == <<g_backend_refcnt, g_backend_once, backend, be_pc>>
extVars == <<ttsVars, fnVars, reVars, beVars>>
\* Everything but CoquiTTS.
coreRest ==
    <<st_, g_running, audio_q, text_q, audioVars, asrVars, brainVars, smVars,
      histVars, obsVars, fnVars, reVars, beVars>>
vars ==
    <<progVars, audioVars, asrVars, brainVars, smVars, histVars, obsVars,
      extVars>>

SmThreads == 1..NumSmThreads
NoCall == [from |-> "none", to |-> "none", ev |-> "none"]

(***************************************************************************)
(* The state machine.                                                      *)
(***************************************************************************)
\* transition_locked with the Thinking/NoCommand row missing.
transition_locked_noRow(cur, ev) ==
    CASE cur = "Boot" /\ ev = "Start" -> [did |-> TRUE, to |-> "AwaitSpeech"]
      [] cur = "AwaitSpeech" /\ ev = "SpeechStart" ->
            [did |-> TRUE, to |-> "CapturingSpeech"]
      [] cur = "CapturingSpeech" /\ ev = "SpeechEndQueued" ->
            [did |-> TRUE, to |-> "Transcribing"]
      [] cur = "Transcribing" /\ ev = "TranscriptReady" ->
            [did |-> TRUE, to |-> "Thinking"]
      [] cur = "Transcribing" /\ ev = "NoCommand" ->
            [did |-> TRUE, to |-> "AwaitSpeech"]
      [] cur = "Thinking" /\ ev = "ReplyReady" ->
            [did |-> TRUE, to |-> "Speaking"]
      [] cur = "Speaking" /\ ev = "TtsDone" ->
            [did |-> TRUE, to |-> "AwaitSpeech"]
      [] cur = "Error" /\ ev = "Start" -> [did |-> TRUE, to |-> "AwaitSpeech"]
      [] OTHER -> [did |-> FALSE, to |-> cur]

\* transition_locked with Stop leading to Shutdown from every state.
transition_locked_stopShutsDown(cur, ev) ==
    CASE ev = "Stop" -> [did |-> TRUE, to |-> "Shutdown"]
      [] cur = "Boot" /\ ev = "Start" -> [did |-> TRUE, to |-> "AwaitSpeech"]
      [] cur = "AwaitSpeech" /\ ev = "SpeechStart" ->
            [did |-> TRUE, to |-> "CapturingSpeech"]
      [] cur = "CapturingSpeech" /\ ev = "SpeechEndQueued" ->
            [did |-> TRUE, to |-> "Transcribing"]
      [] cur = "Transcribing" /\ ev = "TranscriptReady" ->
            [did |-> TRUE, to |-> "Thinking"]
      [] cur = "Transcribing" /\ ev = "NoCommand" ->
            [did |-> TRUE, to |-> "AwaitSpeech"]
      [] cur = "Thinking" /\ ev = "ReplyReady" ->
            [did |-> TRUE, to |-> "Speaking"]
      [] cur = "Thinking" /\ ev = "NoCommand" ->
            [did |-> TRUE, to |-> "AwaitSpeech"]
      [] cur = "Speaking" /\ ev = "TtsDone" ->
            [did |-> TRUE, to |-> "AwaitSpeech"]
      [] cur = "Error" /\ ev = "Start" -> [did |-> TRUE, to |-> "AwaitSpeech"]
      [] OTHER -> [did |-> FALSE, to |-> cur]

\* EdnaStateMachine::transition_locked: the switch over cur, then ev.
transition_locked(cur, ev) ==
    CASE cur = "Boot" ->
            IF ev = "Start" THEN [did |-> TRUE, to |-> "AwaitSpeech"]
            ELSE [did |-> FALSE, to |-> cur]
      [] cur = "AwaitSpeech" ->
            IF ev = "SpeechStart" THEN [did |-> TRUE, to |-> "CapturingSpeech"]
            ELSE [did |-> FALSE, to |-> cur]
      [] cur = "CapturingSpeech" ->
            IF ev = "SpeechEndQueued" THEN [did |-> TRUE, to |-> "Transcribing"]
            ELSE [did |-> FALSE, to |-> cur]
      [] cur = "Transcribing" ->
            IF ev = "TranscriptReady" THEN [did |-> TRUE, to |-> "Thinking"]
            ELSE IF ev = "NoCommand" THEN [did |-> TRUE, to |-> "AwaitSpeech"]
            ELSE [did |-> FALSE, to |-> cur]
      [] cur = "Thinking" ->
            IF ev = "ReplyReady" THEN [did |-> TRUE, to |-> "Speaking"]
            ELSE IF ev = "NoCommand" THEN [did |-> TRUE, to |-> "AwaitSpeech"]
            ELSE [did |-> FALSE, to |-> cur]
      [] cur = "Speaking" ->
            IF ev = "TtsDone" THEN [did |-> TRUE, to |-> "AwaitSpeech"]
            ELSE [did |-> FALSE, to |-> cur]
      [] cur = "Error" ->
            IF ev = "Start" THEN [did |-> TRUE, to |-> "AwaitSpeech"]
            ELSE [did |-> FALSE, to |-> cur]
      [] OTHER -> [did |-> FALSE, to |-> cur]

\* The nine rows of the documented transition table.
TableRows ==
    { <<"Boot", "Start", "AwaitSpeech">>,
      <<"AwaitSpeech", "SpeechStart", "CapturingSpeech">>,
      <<"CapturingSpeech", "SpeechEndQueued", "Transcribing">>,
      <<"Transcribing", "TranscriptReady", "Thinking">>,
      <<"Transcribing", "NoCommand", "AwaitSpeech">>,
      <<"Thinking", "ReplyReady", "Speaking">>,
      <<"Thinking", "NoCommand", "AwaitSpeech">>,
      <<"Speaking", "TtsDone", "AwaitSpeech">>,
      <<"Error", "Start", "AwaitSpeech">> }

\* One step of the table: the row for (s, ev) if there is one, else s.
TableStep(s, ev) ==
    IF \E r \in TableRows : r[1] = s /\ r[2] = ev
    THEN (CHOOSE r \in TableRows : r[1] = s /\ r[2] = ev)[3]
    ELSE s

CeilDiv(a, b) == (a + b - 1) \div b

\* History kept at every dispatch of ev.  An utterance is "early" when it was
\* finalized while the state was Transcribing or Thinking and the state
\* machine has not entered AwaitSpeech since.
Track(ev) ==
    /\ ref' = TableStep(ref, ev)
    /\ IF st_ # "AwaitSpeech" /\ st_' = "AwaitSpeech"
       THEN /\ early_q' = FALSE
            /\ early_asr' = FALSE
       ELSE UNCHANGED <<early_q, early_asr>>

\* The events of the audio loop's segmenter, of asr_thread and of
\* brain_thread (NoCommand is told apart by its note).
IsSegEvent(ev) == ev \in {"SpeechStart", "SpeechEndQueued"}
IsAsrEvent(ev, note) ==
    ev = "TranscriptReady" \/ (ev = "NoCommand" /\ note # "empty reply")
IsBrainEvent(ev, note) ==
    ev \in {"ReplyReady", "TtsDone"} \/ (ev = "NoCommand" /\ note = "empty reply")
\* The events dispatched from the end of an utterance on.
IsStageEvent(ev) ==
    ev \in {"SpeechEndQueued", "TranscriptReady", "NoCommand", "ReplyReady",
            "TtsDone"}

\* A recorded history grows up to MaxLog entries.
Record(l, e) == IF Len(l) < MaxLog THEN Append(l, e) ELSE l

\* The last two entries of l.
LastTwo(l) == IF Len(l) <= 2 THEN l ELSE SubSeq(l, Len(l) - 1, Len(l))

\* The history after a dispatch of ev with note that left the state at to:
\*   "turn"  every dispatch, with the state it left;
\*   "seg"   the segmenter's events;
\*   "audio" the last two events of the segmenter, numbered alternately;
\*   "asr"   the events of asr_thread since it last took an utterance;
\*   "brain" the events of brain_thread since it last took a command.
\*   "stages" the events from SpeechEndQueued on, of all threads, the
\*           NoCommand of brain_thread told apart by its note.
Logged(ev, note, to) ==
    CASE watch = "turn" -> Record(log, [ev |-> ev, to |-> to])
      [] watch = "seg" /\ IsSegEvent(ev) -> Record(log, [ev |-> ev])
      [] watch = "audio" /\ IsSegEvent(ev) ->
            LastTwo(Append(log,
                [ev |-> ev,
                 k |-> IF log = <<>> THEN 0 ELSE 1 - log[Len(log)].k]))
      [] watch = "asr" /\ IsAsrEvent(ev, note) ->
            Record(log, [ev |-> ev, note |-> note])
      [] watch = "brain" /\ IsBrainEvent(ev, note) ->
            Record(log, [ev |-> ev, note |-> note])
      [] watch = "stages" /\ IsStageEvent(ev) ->
            Record(log, [ev |-> ev,
                         note |-> IF note = "empty reply" THEN note ELSE ""])
      [] OTHER -> log

\* The marker a worker thread leaves in its history when it takes an item
\* from its queue, and the one asr_thread leaves when it appends a command.
Taken == [ev |-> "taken", note |-> ""]
Queued == [ev |-> "queued", note |-> ""]

\* ... and, for a dispatch outside the segmenter: the utterance between its
\* finalization and its enqueue, and the frames owed after leaving Speaking.
TrackFin ==
    /\ early_fin' = IF st_ # "AwaitSpeech" /\ st_' = "AwaitSpeech"
                    THEN FALSE ELSE early_fin
    /\ owed_sm' = IF st_ = "Speaking" /\ st_' # "Speaking"
                  THEN CeilDiv(600, 20) ELSE owed_sm

\* EdnaStateMachine::dispatch, the part under the lock: read st_, look the
\* pair up, write st_ if a transition is defined.
dispatch(ev, note) ==
    /\ st_' = (IF transition_locked(st_, ev).did
               THEN transition_locked(st_, ev).to ELSE st_)
    /\ Track(ev)
    /\ log' = Logged(ev, note, st_')

Min(a, b) == IF a < b THEN a ELSE b

(***************************************************************************)
(* Text.  A string is a sequence of one-character strings.                 *)
(***************************************************************************)
UpperCase == <<"A","B","C","D","E","F","G","H","I","J","K","L","M","N","O","P","Q","R","S","T","U","V","W","X","Y","Z">>
LowerCase == <<"a","b","c","d","e","f","g","h","i","j","k","l","m","n","o","p","q","r","s","t","u","v","w","x","y","z">>
Digits == {"0", "1", "2", "3", "4", "5", "6", "7", "8", "9"}

isspace(c) == c \in {" ", "\t", "\n", "\r"}
isalnum(c) ==
    \/ \E i \in 1..Len(UpperCase) : UpperCase[i] = c
    \/ \E i \in 1..Len(LowerCase) : LowerCase[i] = c
    \/ c \in Digits
tolower(c) ==
    IF \E i \in 1..Len(UpperCase) : UpperCase[i] = c
    THEN LowerCase[CHOOSE i \in 1..Len(UpperCase) : UpperCase[i] = c]
    ELSE c

\* trim_ws: a runs forward over leading whitespace, b backward over trailing
\* whitespace (a and b as in the source, counted from 0).
RECURSIVE SkipLeading(_, _)
SkipLeading(s, a) ==
    IF a < Len(s) /\ isspace(s[a + 1]) THEN SkipLeading(s, a + 1) ELSE a

RECURSIVE SkipTrailing(_, _, _)
SkipTrailing(s, a, b) ==
    IF b > a /\ isspace(s[b]) THEN SkipTrailing(s, a, b - 1) ELSE b

trim_ws(s) ==
    LET a == SkipLeading(s, 0)
        b == SkipTrailing(s, a, Len(s))
    IN  SubSeq(s, a + 1, b)

\* normalize, second loop: runs of whitespace collapse to one space.
RECURSIVE CollapseSpaces(_, _, _, _)
CollapseSpaces(s, i, prev_space, out) ==
    IF i > Len(s) THEN out
    ELSE LET sp == isspace(s[i])
         IN  CollapseSpaces(s, i + 1, sp,
                 IF sp THEN (IF ~prev_space THEN Append(out, " ") ELSE out)
                 ELSE Append(out, s[i]))

\* normalize without its closing trim_ws.
normalize_noTrim(in) ==
    LET s == [i \in 1..Len(in) |->
                IF isalnum(in[i]) \/ isspace(in[i]) THEN tolower(in[i])
                ELSE " "]
    IN  CollapseSpaces(s, 1, TRUE, <<>>)

\* normalize: alphanumerics lower-cased, whitespace kept, everything else a
\* space; spaces collapsed; trimmed.
normalize(in) ==
    LET s == [i \in 1..Len(in) |->
                IF isalnum(in[i]) \/ isspace(in[i]) THEN tolower(in[i])
                ELSE " "]
    IN  trim_ws(CollapseSpaces(s, 1, TRUE, <<>>))

\* The invocation prefixes in the order strip_invocation tries them.
InvocationPrefixes ==
    << <<"h","e","y"," ","e","d","n","a">>,
       <<"o","k","a","y"," ","e","d","n","a">>,
       <<"o","k"," ","e","d","n","a">>,
       <<"e","d","n","a">>,
       <<"e","t","n","a">>,
       <<"e","w","a">>,
       <<"e","d">>,
       <<"e","d"," ","n","a","h">>,
       <<"e","d"," ","n","a">> >>

StartsWith(t, pfx) ==
    Len(t) >= Len(pfx) /\ SubSeq(t, 1, Len(pfx)) = pfx

\* strip_invocation: the first prefix of the chain that the normalized text
\* starts with is cut off; text is left alone when none matches.
strip_invocation(text) ==
    LET t == normalize(text)
        hits == {i \in 1..Len(InvocationPrefixes) :
                    StartsWith(t, InvocationPrefixes[i])}
    IN  IF hits = {} THEN [invoked |-> FALSE, text |-> text]
        ELSE LET i == CHOOSE j \in hits : \A h \in hits : j <= h
             IN  [invoked |-> TRUE,
                  text |-> trim_ws(SubSeq(t, Len(InvocationPrefixes[i]) + 1,
                                          Len(t)))]

\* split_sentences wraps a single fragment longer than this.
SoftWrapAt == 180

end_punct(c) == c \in {".", "!", "?"}

\* A flush after every end_punct, whatever follows it.
EndsSentence_anyNext(in, i) == end_punct(in[i])

\* split_sentences, the test of the first loop at position i (from 1):
\* in[i] is end punctuation and is the last character or is followed by
\* whitespace.
EndsSentence(in, i) ==
    /\ end_punct(in[i])
    /\ (i >= Len(in) \/ isspace(in[i + 1]))

\* flush: cur trimmed is appended to out unless it is empty.
flush(cur, out) ==
    LET s == trim_ws(cur)
    IN  IF s # <<>> THEN Append(out, s) ELSE out

\* split_sentences, first loop and the flush after it, from position start
\* (from 1) with cur empty: cur grows up to the next position where
\* EndsSentence holds and is flushed there; what is left at the end of the
\* input is flushed as well.
RECURSIVE SplitWalk(_, _, _)
SplitWalk(in, start, out) ==
    LET ends == {i \in start..Len(in) : EndsSentence(in, i)}
    IN  IF ends = {} THEN flush(SubSeq(in, start, Len(in)), out)
        ELSE LET e == CHOOSE i \in ends : \A j \in ends : i <= j
             IN  SplitWalk(in, e + 1, flush(SubSeq(in, start, e), out))

\* s.rfind(' ', from): the last index (from 0) at or before from that holds
\* a space, -1 for npos.
rfind_space(s, from) ==
    LET hits == {j \in 0..(Len(s) - 1) : j <= from /\ s[j + 1] = " "}
    IN  IF hits = {} THEN -1
        ELSE CHOOSE j \in hits : \A h \in hits : h <= j

\* split_sentences, the soft wrap of s from pos (from 0), with the removal
\* of empty pieces that follows it.
RECURSIVE SoftWrap(_, _, _)
SoftWrap(s, pos, out) ==
    IF pos >= Len(s) THEN out
    ELSE LET take == IF Len(s) - pos < SoftWrapAt THEN Len(s) - pos
                     ELSE SoftWrapAt
             found == rfind_space(s, pos + take)
             cut == IF found = -1 \/ found <= pos THEN pos + take ELSE found
             piece == trim_ws(SubSeq(s, pos + 1, cut))
         IN  SoftWrap(s, SkipLeading(s, cut),
                      IF piece # <<>> THEN Append(out, piece) ELSE out)

split_sentences(in) ==
    LET out == SplitWalk(in, 1, <<>>)
    IN  IF Len(out) = 1 /\ Len(out[1]) > SoftWrapAt
        THEN SoftWrap(out[1], 0, <<>>)
        ELSE out

Max(a, b) == IF a > b THEN a ELSE b

\* llama_vocab_bos(vocab); every other token of a prompt is its position.
BOS == 0

\* LlamaBrain::reply, the context size it works with.
ReplyCtx(p) == Max(64, p.n_ctx)

\* LlamaBrain::reply, max_prompt: max_prompt_tokens if it is positive, at
\* most n_ctx less the safety margin for generation, at least 16.
max_prompt(p) ==
    LET n_ctx == ReplyCtx(p)
        safety == Max(32, p.max_new_tokens + 8)
        asked == IF p.max_prompt_tokens > 0 THEN p.max_prompt_tokens
                 ELSE n_ctx - safety
        fit == Min(asked, n_ctx - safety)
    IN  IF fit < 16 THEN 16 ELSE fit

\* LlamaBrain::reply, the truncation of toks: the last max_prompt(p) tokens
\* are kept, and BOS is inserted in front unless the first of them is BOS.
TruncatePrompt(p, toks) ==
    IF Len(toks) > max_prompt(p)
    THEN LET tail == SubSeq(toks, Len(toks) - max_prompt(p) + 1, Len(toks))
         IN  IF tail # <<>> /\ tail[1] # BOS THEN <<BOS>> \o tail ELSE tail
    ELSE toks

\* LlamaBrain::reply, the prompt decode loop when no llama_decode fails: one
\* token per step until the tokens or the positions of the context run out.
PromptDecoded(p, toks) == Min(Len(toks), ReplyCtx(p))

BLANK_AUDIO == <<"[","B","L","A","N","K","_","A","U","D","I","O","]">>

\* The markers after which brain_thread cuts a reply.
StopMarkers ==
    { <<"<","|","e","n","d","o","f","t","e","x","t","|",">">>,
      <<"<","|","i","m","_","e","n","d","|",">">>,
      <<"\n","H","u","m","a","n",":">>,
      <<"\n","U","S","E","R",":">>,
      <<"\n","U","s","e","r",":">>,
      <<"\n","#","#","#"," ","H","u","m","a","n",":">>,
      <<"\n","#","#","#"," ","I","n","s","t","r","u","c","t","i","o","n",":">> }

\* s.find(t): the first position (from 1) at which t occurs in s, 0 if none.
Find(s, t) ==
    LET at == {i \in 1..(Len(s) - Len(t) + 1) : SubSeq(s, i, i + Len(t) - 1) = t}
    IN  IF at = {} THEN 0 ELSE CHOOSE i \in at : \A j \in at : i <= j

\* strip_after_any: the reply is cut at the first occurrence of any marker
\* and trimmed.
strip_after_any(s) ==
    LET cuts == {Find(s, t) : t \in StopMarkers} \ {0}
    IN  IF cuts = {} THEN trim_ws(s)
        ELSE trim_ws(SubSeq(s, 1, (CHOOSE c \in cuts : \A d \in cuts : c <= d) - 1))

\* The transcripts the transcriber returns in the model: empty (also its
\* failure), one character, the blank-audio sentinel, no invocation, an
\* invocation alone, and commands.
Transcripts ==
    { <<>>,
      <<"a">>,
      <<" ","[","B","L","A","N","K","_","A","U","D","I","O","]","\n">>,
      <<"n","o">>,
      <<"l","i","g","h","t","s"," ","o","n">>,
      <<"H","e","y",","," ","E","d","n","a","!">>,
      <<"E","d">>,
      <<"E","d","n","a",","," ","s","t","o","p",".">>,
      <<"O","K"," ","E","d","n","a"," "," ","s","t","o","p">> }

\* The replies LlamaBrain::reply returns in the model: text, text followed
\* by or consisting of a stop marker, and its failure strings.
Replies ==
    { <<"O","k",".">>,
      <<"O","k","."," ","B","y","e","!">>,
      <<"O","k",".","<","|","i","m","_","e","n","d","|",">">>,
      <<"<","|","i","m","_","e","n","d","|",">">>,
      <<"(","n","o"," ","r","e","s","p","o","n","s","e",")">>,
      <<"(","d","e","c","o","d","e"," ","f","a","i","l","e","d"," ","o","n"," ","p","r","o","m","p","t",")">>,
      <<"O","k"," ","(","d","e","c","o","d","e"," ","f","a","i","l","e","d",")">>,
      <<"<","|","i","m","_","e","n","d","|",">"," ","(","d","e","c","o","d","e"," ","f","a","i","l","e","d",")">> }

(***************************************************************************)
(* Main thread: start-up and the audio + VAD loop.                         *)
(***************************************************************************)
\* What the VAD may answer in the model, not in speech and in speech.  In
\* the segmenter specification it answers anything until an utterance is
\* queued, and unvoiced from then on; in the specification of the program
\* with early voice it also reports voice on the first frames of an empty
\* pre-roll, and in speech only once the utterance holds as many frames as
\* a full pre-roll.
VadIdle ==
    {v \in BOOLEAN :
        v => CASE watch = "seg" -> audio_q = <<>>
               [] watch = "vad" ->
                    \/ preroll < start_trigger
                    \/ preroll + 1 >= preroll_frames - PrerollSlack
               [] OTHER -> preroll + 1 >= preroll_frames - PrerollSlack}
VadSpeech ==
    {v \in BOOLEAN :
        v => /\ utterance < (IF watch = "seg" THEN LongUttFrames ELSE MaxUttFrames)
             /\ watch = "vad" => utterance >= preroll_frames}

\* History of the frame stream: the last three frames, each with its kind
\* ("v" voiced and "u" unvoiced while not in speech, "s" in speech, "g"
\* gated) and the event dispatched on it.
Slide(w, e) == IF Len(w) < 3 THEN Append(w, e) ELSE Append(Tail(w), e)
Seen(kind, ev) ==
    IF watch = "seg" THEN Slide(win, [kind |-> kind, ev |-> ev]) ELSE win

\* ... and its shape: lead unvoiced frames (counted up to 15), then voiced
\* frames, then trail unvoiced frames (counted up to 20); ok is false once
\* the stream is not of the shape "at least 15 unvoiced, at least 3 voiced,
\* unvoiced" or a frame was gated.
OffShape == [ok |-> FALSE, lead |-> 0, voiced |-> 0, trail |-> 0]
StreamStep(s, v) ==
    IF ~s.ok THEN s
    ELSE IF v
         THEN IF s.trail > 0 \/ (s.voiced = 0 /\ s.lead < 15) THEN OffShape
              ELSE [s EXCEPT !.voiced = @ + 1]
         ELSE IF s.voiced = 0 THEN [s EXCEPT !.lead = Min(@ + 1, 15)]
              ELSE IF s.voiced < 3 THEN OffShape
              ELSE [s EXCEPT !.trail = Min(@ + 1, 20)]
Shaped(v) == IF watch = "seg" THEN StreamStep(stream, v) ELSE stream

\* sm.start()
MainStart ==
    /\ a_pc = "boot"
    /\ dispatch("Start", "start()")
    /\ TrackFin
    /\ a_pc' = "read"
    /\ UNCHANGED <<g_running, audio_q, text_q, enabled_, st, in_speech,
                   voiced_run, unvoiced_run, utterance, preroll, ignore_frames,
                   last_was_speaking, asrVars, brainVars, smVars, owed,
                   obsRest>>
    /\ UNCHANGED extVars

\* on_sigint
Sigint ==
    /\ g_running
    /\ g_running' = FALSE
    /\ UNCHANGED <<st_, audio_q, text_q, enabled_, audioVars, asrVars,
                   brainVars, smVars, histVars, obsVars>>
    /\ UNCHANGED extVars

\* AudioRead arming the cooldown one frame short.
AudioRead_shortCooldown ==
    /\ a_pc = "read"
    /\ g_running
    /\ LET speaking_now == (st_ = "Speaking")
           ign == IF last_was_speaking /\ ~speaking_now
                  THEN cooldown_frames - 1 ELSE ignore_frames
           g == speaking_now \/ ign > 0
       IN  /\ st' = st_
           /\ ignore_frames' = ign
           /\ last_was_speaking' = speaking_now
           /\ a_pc' = IF g THEN "gate" ELSE "seg"
           /\ owed' = IF speaking_now THEN CeilDiv(600, 20)
                      ELSE IF g /\ owed > 0 THEN owed - 1 ELSE owed
           /\ owed_sm' = IF g /\ owed_sm > 0 THEN owed_sm - 1 ELSE 0
    /\ UNCHANGED <<progVars, in_speech, voiced_run, unvoiced_run, utterance,
                   preroll, asrVars, brainVars, smVars, ref, early_fin,
                   early_q, early_asr, obsVars>>
    /\ UNCHANGED extVars

\* AudioRead with the gate decided by the sampled state alone.
AudioRead_gateOnStateOnly ==
    /\ a_pc = "read"
    /\ g_running
    /\ LET speaking_now == (st_ = "Speaking")
           ign == IF last_was_speaking /\ ~speaking_now
                  THEN cooldown_frames ELSE ignore_frames
           g == speaking_now
       IN  /\ st' = st_
           /\ ignore_frames' = ign
           /\ last_was_speaking' = speaking_now
           /\ a_pc' = IF g THEN "gate" ELSE "seg"
           /\ owed' = IF speaking_now THEN CeilDiv(600, 20)
                      ELSE IF g /\ owed > 0 THEN owed - 1 ELSE owed
           /\ owed_sm' = IF g /\ owed_sm > 0 THEN owed_sm - 1 ELSE 0
    /\ UNCHANGED <<progVars, in_speech, voiced_run, unvoiced_run, utterance,
                   preroll, asrVars, brainVars, smVars, ref, early_fin,
                   early_q, early_asr, obsVars>>
    /\ UNCHANGED extVars

\* Top of the loop: one frame is read, the state machine is sampled, the
\* cooldown is armed on a Speaking -> non-Speaking edge, and the gate is decided.
AudioRead ==
    /\ a_pc = "read"
    /\ g_running
    /\ LET speaking_now == (st_ = "Speaking")
           ign == IF last_was_speaking /\ ~speaking_now
                  THEN cooldown_frames ELSE ignore_frames
           g == speaking_now \/ ign > 0
       IN  /\ st' = st_
           /\ ignore_frames' = ign
           /\ last_was_speaking' = speaking_now
           /\ a_pc' = IF g THEN "gate" ELSE "seg"
           /\ owed' = IF speaking_now THEN CeilDiv(600, 20)
                      ELSE IF g /\ owed > 0 THEN owed - 1 ELSE owed
           /\ owed_sm' = IF g /\ owed_sm > 0 THEN owed_sm - 1 ELSE 0
    /\ UNCHANGED <<progVars, in_speech, voiced_run, unvoiced_run, utterance,
                   preroll, asrVars, brainVars, smVars, ref, early_fin,
                   early_q, early_asr, obsVars>>
    /\ UNCHANGED extVars

\* AudioGate without the clearing of the utterance queue.
AudioGate_keepQueue ==
    /\ a_pc = "gate"
    /\ ignore_frames' = IF ignore_frames > 0 THEN ignore_frames - 1 ELSE 0
    /\ in_speech' = FALSE
    /\ voiced_run' = 0
    /\ unvoiced_run' = 0
    /\ utterance' = 0
    /\ preroll' = 0
    /\ audio_q' = audio_q
    /\ early_q' = early_q
    /\ a_pc' = "read"
    /\ st' = "none"
    /\ win' = Seen("g", "none")
    /\ stream' = (IF watch = "seg" THEN OffShape ELSE stream)
    /\ UNCHANGED <<st_, g_running, text_q, enabled_,
                   last_was_speaking, asrVars, brainVars, smVars, ref, owed,
                   owed_sm, early_fin, early_asr, watch, log, heard>>
    /\ UNCHANGED extVars

\* AudioGate without the clearing of the pre-roll.
AudioGate_keepPreroll ==
    /\ a_pc = "gate"
    /\ ignore_frames' = IF ignore_frames > 0 THEN ignore_frames - 1 ELSE 0
    /\ in_speech' = FALSE
    /\ voiced_run' = 0
    /\ unvoiced_run' = 0
    /\ utterance' = 0
    /\ preroll' = preroll
    /\ audio_q' = <<>>
    /\ early_q' = FALSE
    /\ a_pc' = "read"
    /\ st' = "none"
    /\ win' = Seen("g", "none")
    /\ stream' = (IF watch = "seg" THEN OffShape ELSE stream)
    /\ UNCHANGED <<st_, g_running, text_q, enabled_,
                   last_was_speaking, asrVars, brainVars, smVars, ref, owed,
                   owed_sm, early_fin, early_asr, watch, log, heard>>
    /\ UNCHANGED extVars

\* The mic gate: the frame is dropped, the segmenter is reset and the
\* utterance queue is cleared.
AudioGate ==
    /\ a_pc = "gate"
    /\ ignore_frames' = IF ignore_frames > 0 THEN ignore_frames - 1 ELSE 0
    /\ in_speech' = FALSE
    /\ voiced_run' = 0
    /\ unvoiced_run' = 0
    /\ utterance' = 0
    /\ preroll' = 0
    /\ audio_q' = <<>>
    /\ early_q' = FALSE
    /\ a_pc' = "read"
    /\ st' = "none"
    /\ win' = Seen("g", "none")
    /\ stream' = (IF watch = "seg" THEN OffShape ELSE stream)
    /\ UNCHANGED <<st_, g_running, text_q, enabled_,
                   last_was_speaking, asrVars, brainVars, smVars, ref, owed,
                   owed_sm, early_fin, early_asr, watch, log, heard>>
    /\ UNCHANGED extVars

\* AudioSegIdle seeding the utterance with nothing instead of the pre-roll.
AudioSegIdle_noSeed ==
    /\ a_pc = "seg"
    /\ ~in_speech
    /\ \E is_speech \in VadIdle :
         LET pre == Min(preroll + 1, preroll_frames)
             vr == IF is_speech THEN voiced_run + 1 ELSE 0
             kind == IF is_speech THEN "v" ELSE "u"
         IN  /\ preroll' = pre
             /\ stream' = Shaped(is_speech)
             /\ IF vr >= start_trigger
                THEN /\ in_speech' = TRUE
                     /\ voiced_run' = 0
                     /\ unvoiced_run' = 0
                     /\ utterance' = 0
                     /\ dispatch("SpeechStart", "VAD start_trigger")
                     /\ win' = Seen(kind, "SpeechStart")
                     /\ TrackFin
                ELSE /\ voiced_run' = vr
                     /\ win' = Seen(kind, "none")
                     /\ UNCHANGED <<in_speech, unvoiced_run, utterance, st_,
                                    ref, owed_sm, early_fin, early_q,
                                    early_asr, log>>
    /\ a_pc' = "read"
    /\ st' = "none"
    /\ UNCHANGED <<g_running, audio_q, text_q, enabled_,
                   ignore_frames, last_was_speaking, asrVars, brainVars,
                   smVars, owed, watch, heard>>
    /\ UNCHANGED extVars

\* AudioSegIdle keeping voiced_run over an unvoiced frame.
AudioSegIdle_runKept ==
    /\ a_pc = "seg"
    /\ ~in_speech
    /\ \E is_speech \in VadIdle :
         LET pre == Min(preroll + 1, preroll_frames)
             vr == IF is_speech THEN voiced_run + 1 ELSE voiced_run
             kind == IF is_speech THEN "v" ELSE "u"
         IN  /\ preroll' = pre
             /\ stream' = Shaped(is_speech)
             /\ IF vr >= start_trigger
                THEN /\ in_speech' = TRUE
                     /\ voiced_run' = 0
                     /\ unvoiced_run' = 0
                     /\ utterance' = pre
                     /\ dispatch("SpeechStart", "VAD start_trigger")
                     /\ win' = Seen(kind, "SpeechStart")
                     /\ TrackFin
                ELSE /\ voiced_run' = vr
                     /\ win' = Seen(kind, "none")
                     /\ UNCHANGED <<in_speech, unvoiced_run, utterance, st_,
                                    ref, owed_sm, early_fin, early_q,
                                    early_asr, log>>
    /\ a_pc' = "read"
    /\ st' = "none"
    /\ UNCHANGED <<g_running, audio_q, text_q, enabled_,
                   ignore_frames, last_was_speaking, asrVars, brainVars,
                   smVars, owed, watch, heard>>
    /\ UNCHANGED extVars

\* An ungated frame while not in speech: pre-roll, VAD, start trigger.
AudioSegIdle ==
    /\ a_pc = "seg"
    /\ ~in_speech
    /\ \E is_speech \in VadIdle :
         LET pre == Min(preroll + 1, preroll_frames)
             vr == IF is_speech THEN voiced_run + 1 ELSE 0
             kind == IF is_speech THEN "v" ELSE "u"
         IN  /\ preroll' = pre
             /\ stream' = Shaped(is_speech)
             /\ IF vr >= start_trigger
                THEN /\ in_speech' = TRUE
                     /\ voiced_run' = 0
                     /\ unvoiced_run' = 0
                     /\ utterance' = pre
                     /\ dispatch("SpeechStart", "VAD start_trigger")
                     /\ win' = Seen(kind, "SpeechStart")
                     /\ TrackFin
                ELSE /\ voiced_run' = vr
                     /\ win' = Seen(kind, "none")
                     /\ UNCHANGED <<in_speech, unvoiced_run, utterance, st_,
                                    ref, owed_sm, early_fin, early_q,
                                    early_asr, log>>
    /\ a_pc' = "read"
    /\ st' = "none"
    /\ UNCHANGED <<g_running, audio_q, text_q, enabled_,
                   ignore_frames, last_was_speaking, asrVars, brainVars,
                   smVars, owed, watch, heard>>
    /\ UNCHANGED extVars

\* AudioSegSpeech finalizing without dispatching SpeechEndQueued.
AudioSegSpeech_noEndEvent ==
    /\ a_pc = "seg"
    /\ in_speech
    /\ \E is_speech \in VadSpeech :
         LET utt == utterance + 1
             ur == IF ~is_speech THEN unvoiced_run + 1 ELSE 0
         IN  /\ preroll' = Min(preroll + 1, preroll_frames)
             /\ stream' = Shaped(is_speech)
             /\ IF ur >= stop_trigger
                THEN /\ in_speech' = FALSE
                     /\ unvoiced_run' = 0
                     /\ UNCHANGED <<st_, ref, early_q, early_asr, log>>
                     /\ win' = Seen("s", "none")
                     /\ early_fin' = (st_ \in {"Transcribing", "Thinking"})
                     /\ owed_sm' = owed_sm
                     /\ IF utt >= min_utt_frames
                        THEN utterance' = utt /\ a_pc' = "enq" /\ st' = st
                        ELSE utterance' = 0 /\ a_pc' = "read" /\ st' = "none"
                ELSE /\ unvoiced_run' = ur
                     /\ utterance' = utt
                     /\ a_pc' = "read"
                     /\ st' = "none"
                     /\ win' = Seen("s", "none")
                     /\ UNCHANGED <<in_speech, st_, ref, owed_sm, early_fin,
                                    early_q, early_asr, log>>
    /\ UNCHANGED <<g_running, audio_q, text_q, enabled_,
                   voiced_run, ignore_frames, last_was_speaking, asrVars,
                   brainVars, smVars, owed, watch, heard>>
    /\ UNCHANGED extVars

\* AudioSegSpeech finalizing without leaving speech.
AudioSegSpeech_staysInSpeech ==
    /\ a_pc = "seg"
    /\ in_speech
    /\ \E is_speech \in VadSpeech :
         LET utt == utterance + 1
             ur == IF ~is_speech THEN unvoiced_run + 1 ELSE 0
         IN  /\ preroll' = Min(preroll + 1, preroll_frames)
             /\ stream' = Shaped(is_speech)
             /\ IF ur >= stop_trigger
                THEN /\ in_speech' = TRUE
                     /\ unvoiced_run' = 0
                     /\ dispatch("SpeechEndQueued", "VAD stop_trigger")
                     /\ win' = Seen("s", "SpeechEndQueued")
                     /\ early_fin' = (st_ \in {"Transcribing", "Thinking"})
                     /\ owed_sm' = owed_sm
                     /\ IF utt >= min_utt_frames
                        THEN utterance' = utt /\ a_pc' = "enq" /\ st' = st
                        ELSE utterance' = 0 /\ a_pc' = "read" /\ st' = "none"
                ELSE /\ unvoiced_run' = ur
                     /\ utterance' = utt
                     /\ a_pc' = "read"
                     /\ st' = "none"
                     /\ win' = Seen("s", "none")
                     /\ UNCHANGED <<in_speech, st_, ref, owed_sm, early_fin,
                                    early_q, early_asr, log>>
    /\ UNCHANGED <<g_running, audio_q, text_q, enabled_,
                   voiced_run, ignore_frames, last_was_speaking, asrVars,
                   brainVars, smVars, owed, watch, heard>>
    /\ UNCHANGED extVars

\* An ungated frame while in speech: pre-roll, VAD, append, stop trigger.
AudioSegSpeech ==
    /\ a_pc = "seg"
    /\ in_speech
    /\ \E is_speech \in VadSpeech :
         LET utt == utterance + 1
             ur == IF ~is_speech THEN unvoiced_run + 1 ELSE 0
         IN  /\ preroll' = Min(preroll + 1, preroll_frames)
             /\ stream' = Shaped(is_speech)
             /\ IF ur >= stop_trigger
                THEN /\ in_speech' = FALSE
                     /\ unvoiced_run' = 0
                     /\ dispatch("SpeechEndQueued", "VAD stop_trigger")
                     /\ win' = Seen("s", "SpeechEndQueued")
                     /\ early_fin' = (st_ \in {"Transcribing", "Thinking"})
                     /\ owed_sm' = owed_sm
                     /\ IF utt >= min_utt_frames
                        THEN utterance' = utt /\ a_pc' = "enq" /\ st' = st
                        ELSE utterance' = 0 /\ a_pc' = "read" /\ st' = "none"
                ELSE /\ unvoiced_run' = ur
                     /\ utterance' = utt
                     /\ a_pc' = "read"
                     /\ st' = "none"
                     /\ win' = Seen("s", "none")
                     /\ UNCHANGED <<in_speech, st_, ref, owed_sm, early_fin,
                                    early_q, early_asr, log>>
    /\ UNCHANGED <<g_running, audio_q, text_q, enabled_,
                   voiced_run, ignore_frames, last_was_speaking, asrVars,
                   brainVars, smVars, owed, watch, heard>>
    /\ UNCHANGED extVars

\* AudioEnqueue appending without clearing the queue first.
AudioEnqueue_noClear ==
    /\ a_pc = "enq"
    /\ audio_q' = Append(audio_q, utterance)
    /\ utterance' = 0
    /\ early_q' = early_fin
    /\ early_fin' = FALSE
    /\ a_pc' = "read"
    /\ st' = "none"
    /\ UNCHANGED <<st_, g_running, text_q, enabled_, in_speech,
                   voiced_run, unvoiced_run, preroll, ignore_frames,
                   last_was_speaking, asrVars, brainVars, smVars, ref, owed,
                   owed_sm, early_asr, obsVars>>
    /\ UNCHANGED extVars

\* The finalized utterance replaces whatever the utterance queue holds.
AudioEnqueue ==
    /\ a_pc = "enq"
    /\ audio_q' = <<utterance>>
    /\ utterance' = 0
    /\ early_q' = early_fin
    /\ early_fin' = FALSE
    /\ a_pc' = "read"
    /\ st' = "none"
    /\ UNCHANGED <<st_, g_running, text_q, enabled_, in_speech,
                   voiced_run, unvoiced_run, preroll, ignore_frames,
                   last_was_speaking, asrVars, brainVars, smVars, ref, owed,
                   owed_sm, early_asr, obsVars>>
    /\ UNCHANGED extVars

\* The loop has seen g_running false: Stop is dispatched.
AudioStop ==
    /\ a_pc = "read"
    /\ ~g_running
    /\ dispatch("Stop", "SIGINT")
    /\ TrackFin
    /\ a_pc' = "join"
    /\ UNCHANGED <<g_running, audio_q, text_q, enabled_, st, in_speech,
                   voiced_run, unvoiced_run, utterance, preroll, ignore_frames,
                   last_was_speaking, asrVars, brainVars, smVars, owed,
                   obsRest>>
    /\ UNCHANGED extVars

\* Both workers are joined and main returns.
MainJoin ==
    /\ a_pc = "join"
    /\ asr_pc = "done"
    /\ brain_pc = "done"
    /\ a_pc' = "exit"
    /\ UNCHANGED <<progVars, st, in_speech, voiced_run, unvoiced_run,
                   utterance, preroll, ignore_frames, last_was_speaking,
                   asrVars, brainVars, smVars, histVars, obsVars>>
    /\ UNCHANGED extVars

(***************************************************************************)
(* asr_thread.                                                             *)
(***************************************************************************)
\* The outcomes of transcribing an utterance and filtering the transcript:
\* blank (shorter than 2 characters or [BLANK_AUDIO]), no invocation prefix,
\* invocation with nothing after it, or a command.
AsrOutcomes == {"blank", "ignored", "invocation_only", "command"}

\* AsrFilter without the blank-audio test.
AsrFilter_noBlankTest(raw) ==
    LET txt == trim_ws(raw)
        r == strip_invocation(txt)
    IN  IF ~r.invoked THEN [outcome |-> "ignored", cmd |-> <<>>]
        ELSE IF trim_ws(r.text) = <<>>
             THEN [outcome |-> "invocation_only", cmd |-> <<>>]
             ELSE [outcome |-> "command", cmd |-> trim_ws(r.text)]

\* The filter asr_thread applies to the transcript raw: its outcome and, for
\* a command, the command.
AsrFilter(raw) ==
    LET txt == trim_ws(raw)
    IN  IF Len(txt) < 2 \/ txt = BLANK_AUDIO
        THEN [outcome |-> "blank", cmd |-> <<>>]
        ELSE LET r == strip_invocation(txt)
             IN  IF ~r.invoked THEN [outcome |-> "ignored", cmd |-> <<>>]
                 ELSE IF trim_ws(r.text) = <<>>
                      THEN [outcome |-> "invocation_only", cmd |-> <<>>]
                      ELSE [outcome |-> "command", cmd |-> trim_ws(r.text)]

\* The filter applied to each transcript of the model.
Filtered == [raw \in Transcripts |-> AsrFilter(raw)]

\* The note asr_thread gives to the NoCommand of an outcome.
AsrNote(outcome) ==
    CASE outcome = "blank" -> "blank audio"
      [] outcome = "ignored" -> "ignored transcript"
      [] outcome = "invocation_only" -> "invocation only"
      [] OTHER -> ""

\* The wait on q_cv returns with an utterance: the newest is taken and the
\* queue is cleared.  An empty utterance ends the loop turn.
AsrDequeue ==
    /\ asr_pc = "wait"
    /\ a_pc # "boot"
    /\ audio_q # <<>>
    /\ audio' = audio_q[Len(audio_q)]
    /\ audio_q' = <<>>
    /\ early_asr' = early_q
    /\ early_q' = FALSE
    /\ asr_pc' = (IF audio_q[Len(audio_q)] = 0 THEN "wait" ELSE "transcribe")
    /\ log' = (IF watch = "asr" THEN <<Taken>> ELSE log)
    /\ heard' = (IF watch = "asr" THEN <<>> ELSE heard)
    /\ UNCHANGED <<st_, g_running, text_q, enabled_, audioVars, cmd, brainVars,
                   smVars, ref, owed, owed_sm, early_fin, watch, stream, win>>
    /\ UNCHANGED extVars

\* The wait returns with the queue empty and g_running false: the thread ends.
AsrExit ==
    /\ asr_pc = "wait"
    /\ a_pc # "boot"
    /\ audio_q = <<>>
    /\ ~g_running
    /\ asr_pc' = "done"
    /\ UNCHANGED <<progVars, audioVars, audio, cmd, brainVars, smVars,
                   histVars, obsVars>>
    /\ UNCHANGED extVars

\* transcribe_16k_mono_s16 returns; the transcript is filtered and the
\* outcome is dispatched.
AsrTranscribe ==
    /\ asr_pc = "transcribe"
    /\ \E raw \in Transcripts :
         LET f == Filtered[raw]
         IN  /\ heard' = (IF watch = "asr" THEN raw ELSE heard)
             /\ IF f.outcome = "command"
                THEN /\ dispatch("TranscriptReady", "")
                     /\ asr_pc' = "enq"
                     /\ audio' = audio
                     /\ cmd' = f.cmd
                ELSE /\ dispatch("NoCommand", AsrNote(f.outcome))
                     /\ asr_pc' = "wait"
                     /\ audio' = 0
                     /\ cmd' = <<>>
    /\ TrackFin
    /\ UNCHANGED <<g_running, audio_q, text_q, enabled_, audioVars,
                   brainVars, smVars, owed, watch, stream, win>>
    /\ UNCHANGED extVars

\* The command is appended to text_q.
AsrEnqueue ==
    /\ asr_pc = "enq"
    /\ Len(text_q) < MaxTextQ
    /\ text_q' = Append(text_q, cmd)
    /\ asr_pc' = "wait"
    /\ audio' = 0
    /\ cmd' = <<>>
    /\ log' = (IF watch = "asr" THEN Record(log, Queued) ELSE log)
    /\ UNCHANGED <<st_, g_running, audio_q, enabled_, audioVars, brainVars,
                   smVars, histVars, obsRest>>
    /\ UNCHANGED extVars

(***************************************************************************)
(* brain_thread (the speech stage runs inline in it).                      *)
(***************************************************************************)
\* The wait on b_cv returns with a command: the front is taken.  A command
\* that is empty or the blank-audio sentinel ends the loop turn.
BrainDequeue ==
    /\ brain_pc = "wait"
    /\ a_pc # "boot"
    /\ text_q # <<>>
    /\ text_q' = Tail(text_q)
    /\ LET text == trim_ws(Head(text_q))
       IN  brain_pc' = (IF text = <<>> \/ text = BLANK_AUDIO
                        THEN "wait" ELSE "reply")
    /\ log' = (IF watch = "brain" THEN <<Taken>> ELSE log)
    /\ heard' = (IF watch = "brain" THEN <<>> ELSE heard)
    /\ UNCHANGED <<st_, g_running, audio_q, enabled_, audioVars, asrVars,
                   parts_left, smVars, histVars, watch, stream, win>>
    /\ UNCHANGED extVars

\* The wait returns with the queue empty and g_running false: the thread ends.
BrainExit ==
    /\ brain_pc = "wait"
    /\ a_pc # "boot"
    /\ text_q = <<>>
    /\ ~g_running
    /\ brain_pc' = "done"
    /\ UNCHANGED <<progVars, audioVars, asrVars, parts_left, smVars, histVars,
                   obsVars>>
    /\ UNCHANGED extVars

\* strip_after_any applied to each reply of the model.
Stripped == [reply \in Replies |-> strip_after_any(reply)]

\* brain.reply returns and the markers are stripped: an empty reply is
\* NoCommand; otherwise ReplyReady, and the reply is split (into n chunks)
\* for the speech stage if it is enabled.
BrainReply ==
    /\ brain_pc = "reply"
    /\ \E reply \in Replies, n \in 1..MaxChunks :
         /\ heard' = (IF watch = "brain" THEN reply ELSE heard)
         /\ IF Stripped[reply] = <<>>
            THEN /\ dispatch("NoCommand", "empty reply")
                 /\ brain_pc' = "wait"
                 /\ parts_left' = 0
            ELSE /\ dispatch("ReplyReady", "")
                 /\ brain_pc' = "speak"
                 /\ parts_left' = IF enabled_ THEN n ELSE 0
    /\ TrackFin
    /\ UNCHANGED <<g_running, audio_q, text_q, enabled_, audioVars, asrVars,
                   smVars, owed, watch, stream, win>>
    /\ UNCHANGED extVars

\* BrainSpeak going back to the wait, without TtsDone, when a chunk fails.
BrainSpeak_failSkipsTtsDone ==
    /\ brain_pc = "speak"
    /\ parts_left > 0
    /\ \E r \in {"ok", "failed", "dead"} :
         /\ parts_left' = IF r = "ok" THEN parts_left - 1 ELSE 0
         /\ enabled_' = IF r = "dead" THEN FALSE ELSE enabled_
         /\ brain_pc' = IF r = "ok" THEN "speak" ELSE "wait"
    /\ UNCHANGED <<st_, g_running, audio_q, text_q, audioVars, asrVars,
                   smVars, histVars, obsVars>>
    /\ UNCHANGED extVars

\* BrainSpeak dispatching TtsDone after every chunk.
BrainSpeak_ttsDonePerChunk ==
    /\ brain_pc = "speak"
    /\ parts_left > 0
    /\ \E r \in {"ok", "failed", "dead"} :
         /\ parts_left' = IF r = "ok" THEN parts_left - 1 ELSE 0
         /\ enabled_' = IF r = "dead" THEN FALSE ELSE enabled_
    /\ dispatch("TtsDone", "")
    /\ TrackFin
    /\ UNCHANGED <<g_running, audio_q, text_q, audioVars, asrVars,
                   brain_pc, smVars, owed, obsRest>>
    /\ UNCHANGED extVars

\* tts.speak(chunk): played; failed with the stage still enabled (an ERR
\* answer, a failed playback); or failed with the stage disabled (worker
\* dead).  A failure leaves the chunk loop.
BrainSpeak ==
    /\ brain_pc = "speak"
    /\ parts_left > 0
    /\ \E r \in {"ok", "failed", "dead"} :
         /\ parts_left' = IF r = "ok" THEN parts_left - 1 ELSE 0
         /\ enabled_' = IF r = "dead" THEN FALSE ELSE enabled_
    /\ UNCHANGED <<st_, g_running, audio_q, text_q, audioVars, asrVars,
                   brain_pc, smVars, histVars, obsVars>>
    /\ UNCHANGED extVars

\* BrainTtsDone dispatching TtsDone only while the speech stage is enabled.
BrainTtsDone_onlyWhenEnabled ==
    /\ brain_pc = "speak"
    /\ parts_left = 0
    /\ IF enabled_
       THEN /\ dispatch("TtsDone", "")
            /\ TrackFin
       ELSE UNCHANGED <<st_, ref, early_q, early_asr, early_fin, owed_sm, log>>
    /\ brain_pc' = "wait"
    /\ UNCHANGED <<g_running, audio_q, text_q, enabled_, audioVars, asrVars,
                   parts_left, smVars, owed, obsRest>>
    /\ UNCHANGED extVars

\* After the chunk loop: TtsDone.
BrainTtsDone ==
    /\ brain_pc = "speak"
    /\ parts_left = 0
    /\ dispatch("TtsDone", "")
    /\ TrackFin
    /\ brain_pc' = "wait"
    /\ UNCHANGED <<g_running, audio_q, text_q, enabled_, audioVars, asrVars,
                   parts_left, smVars, owed, obsRest>>
    /\ UNCHANGED extVars

(***************************************************************************)
(* The state machine on its own: threads dispatching arbitrary events.     *)
(***************************************************************************)
\* dispatch(ev) up to the release of the lock; a transition leaves the
\* observer call pending.
SmDispatch(t, ev) ==
    /\ sm_pc[t] = "idle"
    /\ dispatch(ev, "")
    /\ LET r == transition_locked(st_, ev)
       IN  IF r.did
           THEN /\ sm_pc' = [sm_pc EXCEPT ![t] = "notify"]
                /\ sm_pend' = [sm_pend EXCEPT
                                 ![t] = [from |-> st_, to |-> r.to, ev |-> ev]]
           ELSE UNCHANGED <<sm_pc, sm_pend>>
    /\ UNCHANGED <<g_running, audio_q, text_q, enabled_, audioVars, asrVars,
                   brainVars, owed, owed_sm, early_fin, obsRest>>
    /\ UNCHANGED extVars

\* The observer is called outside the lock.
SmNotify(t) ==
    /\ sm_pc[t] = "notify"
    /\ sm_pc' = [sm_pc EXCEPT ![t] = "idle"]
    /\ sm_pend' = [sm_pend EXCEPT ![t] = NoCall]
    /\ UNCHANGED <<progVars, audioVars, asrVars, brainVars, histVars,
                   obsVars>>
    /\ UNCHANGED extVars

(***************************************************************************)
(* EdnaStateMachine with its mutex, and an observer that calls state() and *)
(* dispatch.  Each thread has a stack of calls; a call made by the         *)
(* observer is nested in the dispatch that invoked the observer.  A call   *)
(* is at "lock" (waiting for m_), "locked" (holding it), "unlocked" (the   *)
(* block under the lock_guard has been left), "in_obs" (the observer is    *)
(* running) or "ret" (about to return).                                    *)
(***************************************************************************)
\* The note of a call: threads pass one, the observer leaves the default.
NoteAt(depth) == IF depth = 0 THEN "n" ELSE ""

\* The innermost call of thread t.
Top(t) == sm_stack[t][Len(sm_stack[t])]
At(t, pc) == sm_stack[t] # <<>> /\ Top(t).pc = pc

\* sm_stack with the innermost call of t replaced by f, and without it.
WithTop(t, f) == [sm_stack EXCEPT ![t] = [@ EXCEPT ![Len(@)] = f]]
Popped(t) == [sm_stack EXCEPT ![t] = SubSeq(@, 1, Len(@) - 1)]

\* What the calls of the state machine leave alone, whatever they do.
reRest ==
    <<g_running, audio_q, text_q, enabled_, audioVars, asrVars, brainVars,
      smVars, owed, owed_sm, early_fin, obsRest, ttsVars, fnVars, beVars>>

\* A thread, or the observer it is running, calls dispatch(ev, note) or
\* state().
ReCall(t) ==
    /\ IF sm_stack[t] = <<>> THEN TRUE ELSE Top(t).pc = "in_obs"
    /\ Len(sm_stack[t]) < MaxNesting
    /\ \E op \in {"dispatch", "state"}, ev \in Events :
         /\ op = "state" => ev = "Start"
         /\ sm_stack' = [sm_stack EXCEPT ![t] = Append(@,
                           [op |-> op, pc |-> "lock", ev |-> ev,
                            note |-> NoteAt(Len(sm_stack[t])),
                            from |-> "none", to |-> "none", did |-> FALSE,
                            calls |-> 0, seen |-> <<>>])]
    /\ UNCHANGED <<st_, ref, early_q, early_asr, log, sm_m, reRest>>

\* std::lock_guard<std::mutex> lk(m_)
ReLock(t) ==
    /\ At(t, "lock")
    /\ sm_m = 0
    /\ sm_m' = t
    /\ sm_stack' = WithTop(t, [Top(t) EXCEPT !.pc = "locked"])
    /\ UNCHANGED <<st_, ref, early_q, early_asr, log, reRest>>

\* ReLocked for dispatch leaving the block without releasing m_.
ReLocked_keepsLock(t) ==
    /\ At(t, "locked")
    /\ IF Top(t).op = "state"
       THEN /\ sm_stack' = Popped(t)
            /\ sm_m' = 0
            /\ UNCHANGED <<st_, ref, early_q, early_asr, log>>
       ELSE /\ dispatch(Top(t).ev, Top(t).note)
            /\ sm_stack' = WithTop(t,
                  [Top(t) EXCEPT !.pc = "unlocked", !.from = st_, !.to = st_',
                                 !.did = transition_locked(st_, Top(t).ev).did])
            /\ sm_m' = sm_m
    /\ UNCHANGED reRest

\* The code under the lock_guard: state() returns st_; dispatch reads st_,
\* looks the pair up, writes st_ and copies the observer.  m_ is released
\* at the end of the block.
ReLocked(t) ==
    /\ At(t, "locked")
    /\ IF Top(t).op = "state"
       THEN /\ sm_stack' = Popped(t)
            /\ UNCHANGED <<st_, ref, early_q, early_asr, log>>
       ELSE /\ dispatch(Top(t).ev, Top(t).note)
            /\ sm_stack' = WithTop(t,
                  [Top(t) EXCEPT !.pc = "unlocked", !.from = st_, !.to = st_',
                                 !.did = transition_locked(st_, Top(t).ev).did])
    /\ sm_m' = 0
    /\ UNCHANGED reRest

\* if (did && obs_copy) obs_copy(from, to, ev, note)
ReInvoke(t) ==
    /\ At(t, "unlocked")
    /\ sm_stack' = WithTop(t,
          IF Top(t).did
          THEN [Top(t) EXCEPT !.pc = "in_obs", !.calls = @ + 1,
                              !.seen = <<Top(t).from, Top(t).to, Top(t).ev,
                                         Top(t).note>>]
          ELSE [Top(t) EXCEPT !.pc = "ret"])
    /\ UNCHANGED <<st_, ref, early_q, early_asr, log, sm_m, reRest>>

\* The observer returns.
ReObsReturn(t) ==
    /\ At(t, "in_obs")
    /\ sm_stack' = WithTop(t, [Top(t) EXCEPT !.pc = "ret"])
    /\ UNCHANGED <<st_, ref, early_q, early_asr, log, sm_m, reRest>>

\* dispatch returns.
ReReturn(t) ==
    /\ At(t, "ret")
    /\ sm_stack' = Popped(t)
    /\ UNCHANGED <<st_, ref, early_q, early_asr, log, sm_m, reRest>>

(***************************************************************************)
(* The llama backend (llm_llama.cpp 86-104): LlamaBrain's constructor      *)
(* calls backend_acquire, its destructor backend_release, on any thread.   *)
(***************************************************************************)
Brains == 1..NumBrains

beRest ==
    <<progVars, audioVars, asrVars, brainVars, smVars, histVars, obsVars,
      ttsVars, fnVars, reVars>>

\* backend_acquire: std::call_once(g_backend_once, llama_backend_init)
BeCallOnce(b) ==
    /\ be_pc[b] = "none"
    /\ be_pc' = [be_pc EXCEPT ![b] = "once"]
    /\ g_backend_once' = TRUE
    /\ backend' = (IF g_backend_once THEN backend ELSE "init")
    /\ UNCHANGED <<g_backend_refcnt, beRest>>

\* backend_acquire: g_backend_refcnt.fetch_add(1); the constructor goes on.
BeCount(b) ==
    /\ be_pc[b] = "once"
    /\ g_backend_refcnt' = g_backend_refcnt + 1
    /\ be_pc' = [be_pc EXCEPT ![b] = "held"]
    /\ UNCHANGED <<g_backend_once, backend, beRest>>

\* ~LlamaBrain, backend_release: n = g_backend_refcnt.fetch_sub(1) - 1
BeRelease(b) ==
    /\ be_pc[b] = "held"
    /\ g_backend_refcnt' = g_backend_refcnt - 1
    /\ be_pc' = [be_pc EXCEPT
                   ![b] = IF g_backend_refcnt - 1 = 0 THEN "freeing" ELSE "none"]
    /\ UNCHANGED <<g_backend_once, backend, beRest>>

\* backend_release: if (n == 0) { lock g_backend_mu; llama_backend_free(); }
BeFree(b) ==
    /\ be_pc[b] = "freeing"
    /\ backend' = "freed"
    /\ be_pc' = [be_pc EXCEPT ![b] = "none"]
    /\ UNCHANGED <<g_backend_refcnt, g_backend_once, beRest>>

(***************************************************************************)
(* CoquiTTS (tts_coqui.cpp) called from several threads.  A step is the    *)
(* code of a member function between two points at which another thread    *)
(* or the worker child can be seen to act: taking m_, the code under m_    *)
(* up to a write to or a read from the worker, the playback outside m_.    *)
(***************************************************************************)
TtsThreads == 1..NumTtsThreads
Pids == 1..MaxWorkers
TtsOps == {"speak", "ensure_worker", "shutdown", "is_enabled", "last_error"}

\* Worker{}
NoWorker == [to_child |-> -1, from_child |-> -1, pid |-> -1, ready |-> FALSE]

\* The pid fork() returns next, MaxWorkers + 1 when the model has no more.
NextPid ==
    IF \A k \in Pids : kids[k] # "unborn" THEN MaxWorkers + 1
    ELSE CHOOSE k \in Pids :
           kids[k] = "unborn" /\ \A j \in Pids : kids[j] = "unborn" => k <= j

\* The fields a call has reached so far: the members of CoquiTTS, the
\* children, where the caller goes next (pc, holds: still holding m_), what
\* it returns, and what happened on the way (wrote: it wrote to a pipe;
\* epipe: it wrote to a pipe whose reader has exited; dead: it found the
\* worker dead or unusable).
Fields ==
    [enabled |-> enabled_, worker |-> worker_, err |-> last_err_,
     kids |-> kids, pc |-> "idle", holds |-> FALSE, ret |-> "none",
     wrote |-> FALSE, epipe |-> FALSE, dead |-> FALSE]

\* write_all_locked: false without a descriptor; a write to a pipe whose
\* reader has exited raises SIGPIPE and fails with EPIPE.
write_all_locked(r) ==
    IF r.worker.to_child < 0 THEN [r EXCEPT !.ret = "false"]
    ELSE IF r.kids[r.worker.pid] = "alive"
         THEN [r EXCEPT !.ret = "true", !.wrote = TRUE]
         ELSE [r EXCEPT !.ret = "false", !.wrote = TRUE, !.epipe = TRUE]

\* stop_worker_locked without the waitpid calls and the kill.
stop_worker_locked_noReap(r) ==
    IF r.worker.pid <= 0 THEN [r EXCEPT !.worker = NoWorker]
    ELSE LET w == IF r.kids[r.worker.pid] = "alive"
                  THEN [r EXCEPT !.wrote = TRUE]
                  ELSE [r EXCEPT !.wrote = TRUE, !.epipe = TRUE]
         IN  [w EXCEPT !.worker = NoWorker]

\* stop_worker_locked: "__quit__" is written, the descriptors are closed,
\* the child is reaped (killed if need be) and worker_ is reset.
stop_worker_locked(r) ==
    IF r.worker.pid <= 0 THEN [r EXCEPT !.worker = NoWorker]
    ELSE LET w == write_all_locked(r)
         IN  [w EXCEPT !.worker = NoWorker,
                       !.kids[r.worker.pid] = "reaped",
                       !.ret = r.ret]

\* What start_worker_locked can meet: pipe() or fork() fails; the child
\* says READY; it says something else; it says nothing for 10 s; it exits
\* (python or the TTS package missing: EOF).
StartOutcomes ==
    {"pipe_failed", "fork_failed", "ready", "bad_hello", "timeout", "eof"}

\* start_worker_locked meeting o.
start_worker_locked(r, o) ==
    IF r.worker.pid > 0 /\ r.worker.ready THEN [r EXCEPT !.ret = "true"]
    ELSE
    LET s == IF r.worker.pid > 0 THEN stop_worker_locked(r) ELSE r
        pid == NextPid
        born == [to_child |-> 2 * pid + 1, from_child |-> 2 * pid + 2,
                 pid |-> pid, ready |-> FALSE]
    IN  CASE o = "pipe_failed" ->
               [s EXCEPT !.err = "pipe(in_pipe) failed", !.enabled = FALSE,
                         !.ret = "false", !.dead = TRUE]
          [] o = "fork_failed" ->
               [s EXCEPT !.err = "fork() failed", !.enabled = FALSE,
                         !.ret = "false", !.dead = TRUE]
          [] o = "ready" ->
               [s EXCEPT !.worker = [born EXCEPT !.ready = TRUE],
                         !.kids[pid] = "alive", !.enabled = TRUE,
                         !.err = "", !.ret = "true"]
          [] o = "bad_hello" ->
               [stop_worker_locked(
                    [s EXCEPT !.worker = born, !.kids[pid] = "alive",
                              !.err = "TTS worker bad hello", !.dead = TRUE])
                  EXCEPT !.enabled = FALSE, !.ret = "false"]
          [] o = "timeout" ->
               [stop_worker_locked(
                    [s EXCEPT !.worker = born, !.kids[pid] = "alive",
                              !.err = "TTS worker handshake timeout",
                              !.dead = TRUE])
                  EXCEPT !.enabled = FALSE, !.ret = "false"]
          [] o = "eof" ->
               [stop_worker_locked(
                    [s EXCEPT !.worker = born, !.kids[pid] = "exited",
                              !.err = "TTS worker handshake timeout",
                              !.dead = TRUE])
                  EXCEPT !.enabled = FALSE, !.ret = "false"]

\* The step of thread t that reached r takes effect; a write that raised
\* SIGPIPE under the default disposition has terminated the process instead.
TtsCommit(t, r) ==
    IF r.epipe /\ sigpipe = "default"
    THEN /\ proc' = "killed"
         /\ found_dead' = (found_dead \/ r.dead)
         /\ UNCHANGED <<enabled_, sigpipe, m_, worker_, last_err_, kids,
                        tts_pc, tts_op, tts_ret, tts_wrote, bare>>
    ELSE /\ enabled_' = r.enabled
         /\ worker_' = r.worker
         /\ last_err_' = r.err
         /\ kids' = r.kids
         /\ m_' = (IF r.holds THEN t ELSE 0)
         /\ tts_pc' = [tts_pc EXCEPT ![t] = r.pc]
         /\ tts_ret' = [tts_ret EXCEPT ![t] = r.ret]
         /\ tts_wrote' = [tts_wrote EXCEPT ![t] = @ \/ r.wrote]
         /\ found_dead' = (found_dead \/ r.dead)
         /\ UNCHANGED <<proc, sigpipe, tts_op, bare>>

\* A thread calls a member function.
TtsCall(t) ==
    /\ proc = "running"
    /\ tts_pc[t] = "idle"
    /\ \E op \in TtsOps : tts_op' = [tts_op EXCEPT ![t] = op]
    /\ tts_pc' = [tts_pc EXCEPT ![t] = "lock"]
    /\ tts_ret' = [tts_ret EXCEPT ![t] = "none"]
    /\ tts_wrote' = [tts_wrote EXCEPT ![t] = FALSE]
    /\ UNCHANGED <<enabled_, proc, sigpipe, m_, worker_, last_err_, kids,
                   found_dead, bare, coreRest>>

\* std::lock_guard<std::mutex> lk(m_)
TtsLock(t) ==
    /\ proc = "running"
    /\ tts_pc[t] = "lock"
    /\ m_ = 0
    /\ m_' = t
    /\ tts_pc' = [tts_pc EXCEPT ![t] = "locked"]
    /\ UNCHANGED <<enabled_, proc, sigpipe, worker_, last_err_, kids, tts_op,
                   tts_ret, found_dead, tts_wrote, bare, coreRest>>

\* is_enabled() and last_error(): the field is read under m_.
TtsRead(t) ==
    /\ proc = "running"
    /\ tts_pc[t] = "locked"
    /\ tts_op[t] \in {"is_enabled", "last_error"}
    /\ TtsCommit(t, [Fields EXCEPT
                       !.ret = IF tts_op[t] = "last_error" THEN last_err_
                               ELSE IF enabled_ THEN "true" ELSE "false"])
    /\ UNCHANGED coreRest

\* shutdown()
TtsShutdown(t) ==
    /\ proc = "running"
    /\ tts_pc[t] = "locked"
    /\ tts_op[t] = "shutdown"
    /\ TtsCommit(t, stop_worker_locked(Fields))
    /\ UNCHANGED coreRest

\* ensure_worker()
TtsEnsureWorker(t) ==
    /\ proc = "running"
    /\ tts_pc[t] = "locked"
    /\ tts_op[t] = "ensure_worker"
    /\ IF ~enabled_
       THEN TtsCommit(t, [Fields EXCEPT !.ret = "false"])
       ELSE IF worker_.pid > 0 /\ worker_.ready
       THEN TtsCommit(t, [Fields EXCEPT !.ret = "true"])
       ELSE /\ NextPid \in Pids
            /\ \E o \in StartOutcomes :
                 TtsCommit(t, start_worker_locked(Fields, o))
    /\ UNCHANGED coreRest

\* speak(), from the test of enabled_ to the worker being there.
TtsSpeakStart(t) ==
    /\ proc = "running"
    /\ tts_pc[t] = "locked"
    /\ tts_op[t] = "speak"
    /\ IF ~enabled_
       THEN TtsCommit(t, [Fields EXCEPT !.ret = "false"])
       ELSE IF worker_.pid > 0 /\ worker_.ready
       THEN TtsCommit(t, [Fields EXCEPT !.pc = "write", !.holds = TRUE])
       ELSE /\ NextPid \in Pids
            /\ \E o \in StartOutcomes :
                 LET r == start_worker_locked(Fields, o)
                 IN  TtsCommit(t, IF r.ret = "true"
                                  THEN [r EXCEPT !.pc = "write",
                                                 !.holds = TRUE,
                                                 !.ret = "none"]
                                  ELSE r)
    /\ UNCHANGED coreRest

\* speak(): the request is written; a failed write disables the stage and
\* stops the worker.
TtsSpeakWrite(t) ==
    /\ proc = "running"
    /\ tts_pc[t] = "write"
    /\ LET w == write_all_locked(Fields)
       IN  TtsCommit(t,
             IF w.ret = "true"
             THEN [w EXCEPT !.pc = "read", !.holds = TRUE, !.ret = "none"]
             ELSE [stop_worker_locked(
                       [w EXCEPT !.err = "Failed writing to TTS worker",
                                 !.enabled = FALSE, !.dead = TRUE])
                     EXCEPT !.ret = "false"])
    /\ UNCHANGED coreRest

\* What read_line_locked(resp, 30000) can return with the child alive.
Responses == {"wav", "ERR", "timeout"}

\* speak(): the response is read.  A timeout or EOF disables the stage and
\* stops the worker; an ERR line fails the call; a path goes to playback,
\* m_ released.
TtsSpeakRead(t) ==
    /\ proc = "running"
    /\ tts_pc[t] = "read"
    /\ \E resp \in (IF kids[worker_.pid] = "alive" THEN Responses ELSE {"eof"}) :
         TtsCommit(t,
           CASE resp = "wav" -> [Fields EXCEPT !.pc = "play"]
             [] resp = "ERR" ->
                  [Fields EXCEPT !.err = "TTS worker: ERR", !.ret = "false"]
             [] OTHER ->
                  [stop_worker_locked(
                       [Fields EXCEPT !.err = "TTS worker timeout",
                                      !.enabled = FALSE, !.dead = TRUE])
                     EXCEPT !.ret = "false"])
    /\ UNCHANGED coreRest

\* What play_wav_locked can meet.
PlayOutcomes == {"ok", "fork() failed for aplay", "waitpid() failed for aplay",
                 "aplay failed"}

\* speak(): play_wav_locked, called after m_ was released; a failure is
\* written to last_err_.
TtsSpeakPlay(t) ==
    /\ proc = "running"
    /\ tts_pc[t] = "play"
    /\ \E o \in PlayOutcomes :
         /\ last_err_' = (IF o = "ok" THEN last_err_ ELSE o)
         /\ tts_ret' = [tts_ret EXCEPT ![t] = IF o = "ok" THEN "true" ELSE "false"]
         /\ bare' = (IF o # "ok" /\ m_ # t THEN bare \cup {"last_err_"} ELSE bare)
    /\ tts_pc' = [tts_pc EXCEPT ![t] = "idle"]
    /\ UNCHANGED <<enabled_, proc, sigpipe, m_, worker_, kids, tts_op,
                   found_dead, tts_wrote, coreRest>>

\* The worker child exits on its own (a crash, a kill from outside).
KidDies(k) ==
    /\ proc = "running"
    /\ kids[k] = "alive"
    /\ kids' = [kids EXCEPT ![k] = "exited"]
    /\ UNCHANGED <<enabled_, proc, sigpipe, m_, worker_, last_err_, tts_pc,
                   tts_op, tts_ret, found_dead, tts_wrote, bare, coreRest>>

(***************************************************************************)
(* Specifications.                                                         *)
(***************************************************************************)
\* CoquiTTS after its constructor, no thread in a call.
TtsConstructed ==
    /\ proc = "running"
    /\ m_ = 0
    /\ worker_ = NoWorker
    /\ last_err_ = ""
    /\ kids = [k \in Pids |-> "unborn"]
    /\ tts_pc = [t \in TtsThreads |-> "idle"]
    /\ tts_op = [t \in TtsThreads |-> "none"]
    /\ tts_ret = [t \in TtsThreads |-> "none"]
    /\ found_dead = FALSE
    /\ tts_wrote = [t \in TtsThreads |-> FALSE]
    /\ bare = {}

\* The state of the pipeline after construction, in a run in which the
\* history w is recorded.
CoreInit(w) ==
    /\ st_ = "Boot"
    /\ g_running = TRUE
    /\ audio_q = <<>>
    /\ text_q = <<>>
    /\ enabled_ = TRUE
    /\ a_pc = "boot"
    /\ st = "none"
    /\ in_speech = FALSE
    /\ voiced_run = 0
    /\ unvoiced_run = 0
    /\ utterance = 0
    /\ preroll = 0
    /\ ignore_frames = 0
    /\ last_was_speaking = FALSE
    /\ asr_pc = "wait"
    /\ audio = 0
    /\ cmd = <<>>
    /\ brain_pc = "wait"
    /\ parts_left = 0
    /\ sm_pc = [t \in SmThreads |-> "idle"]
    /\ sm_pend = [t \in SmThreads |-> NoCall]
    /\ ref = "Boot"
    /\ owed = 0
    /\ owed_sm = 0
    /\ early_fin = FALSE
    /\ early_q = FALSE
    /\ early_asr = FALSE
    /\ watch = w
    /\ log = <<>>
    /\ stream = [ok |-> TRUE, lead |-> 0, voiced |-> 0, trail |-> 0]
    /\ win = <<>>
    /\ heard = <<>>

\* No function is applied.
FnIdle ==
    /\ f_pc = "idle"
    /\ f_arg = <<>>
    /\ f_res = <<>>

\* EdnaStateMachine's mutex free and no call in progress.
SmConstructed ==
    /\ sm_m = 0
    /\ sm_stack = [t \in SmThreads |-> <<>>]

\* llm_llama.cpp's statics before any LlamaBrain exists.
BackendStatics ==
    /\ g_backend_refcnt = 0
    /\ g_backend_once = FALSE
    /\ backend = "uninit"
    /\ be_pc = [b \in 1..NumBrains |-> "none"]

\* The state after construction, in a run in which the history w is
\* recorded.
InitWatching(w) ==
    /\ CoreInit(w)
    /\ TtsConstructed
    /\ sigpipe = "default"
    /\ FnIdle
    /\ SmConstructed
    /\ BackendStatics

Init == InitWatching("none")

\* The program: main, asr_thread, brain_thread and SIGINT.
Next ==
    \/ MainStart
    \/ Sigint
    \/ AudioRead
    \/ AudioGate
    \/ AudioSegIdle
    \/ AudioSegSpeech
    \/ AudioEnqueue
    \/ AudioStop
    \/ MainJoin
    \/ AsrDequeue
    \/ AsrExit
    \/ AsrTranscribe
    \/ AsrEnqueue
    \/ BrainDequeue
    \/ BrainExit
    \/ BrainReply
    \/ BrainSpeak
    \/ BrainTtsDone

Spec == Init /\ [][Next]_vars

\* The state machine alone, under arbitrary concurrent dispatches.
NextSM ==
    \/ \E t \in SmThreads, ev \in Events : SmDispatch(t, ev)
    \/ \E t \in SmThreads : SmNotify(t)

SpecSM == Init /\ [][NextSM]_vars

\* The audio loop alone (no utterance is taken from the queue, so the state
\* never becomes Speaking and no frame is gated), with a VAD that may answer
\* anything and the history of the frame stream recorded.
InitSeg == InitWatching("seg")

NextSeg ==
    \/ MainStart
    \/ AudioRead
    \/ AudioSegIdle
    \/ AudioSegSpeech
    \/ AudioEnqueue

SpecSeg == InitSeg /\ [][NextSeg]_vars

\* The program while it runs (no SIGINT), the three threads scheduled
\* fairly: the microphone read and every engine call return.
NextRun ==
    \/ MainStart
    \/ AudioRead
    \/ AudioGate
    \/ AudioSegIdle
    \/ AudioSegSpeech
    \/ AudioEnqueue
    \/ AsrDequeue
    \/ AsrTranscribe
    \/ AsrEnqueue
    \/ BrainDequeue
    \/ BrainReply
    \/ BrainSpeak
    \/ BrainTtsDone

SpecRun ==
    /\ Init
    /\ [][NextRun]_vars
    /\ WF_vars(MainStart \/ AudioRead \/ AudioGate \/ AudioSegIdle
                 \/ AudioSegSpeech \/ AudioEnqueue)
    /\ WF_vars(AsrDequeue \/ AsrTranscribe \/ AsrEnqueue)
    /\ WF_vars(BrainDequeue \/ BrainReply \/ BrainSpeak \/ BrainTtsDone)

\* One turn: the program without SIGINT, with every dispatch recorded, in
\* which no frame is voiced once a SpeechStart has been dispatched, every
\* transcript is a command and every reply is non-empty.
InitTurn == InitWatching("turn")

TurnSegIdle ==
    /\ AudioSegIdle
    /\ (\E i \in 1..Len(log) : log[i].ev = "SpeechStart")
         => (voiced_run' = 0 /\ ~in_speech')

TurnTranscribe == AsrTranscribe /\ asr_pc' = "enq"

TurnReply == BrainReply /\ brain_pc' = "speak"

NextTurn ==
    \/ MainStart
    \/ AudioRead
    \/ AudioGate
    \/ TurnSegIdle
    \/ AudioSegSpeech
    \/ AudioEnqueue
    \/ AsrDequeue
    \/ TurnTranscribe
    \/ AsrEnqueue
    \/ BrainDequeue
    \/ TurnReply
    \/ BrainSpeak
    \/ BrainTtsDone

SpecTurn == InitTurn /\ [][NextTurn]_vars

\* The program with the segmenter's events recorded.
InitAudio == InitWatching("audio")
SpecAudio == InitAudio /\ [][Next]_vars

\* The program while it runs, with a VAD that may report voice on the first
\* frames of an empty pre-roll as well: at the start and after the mic gate
\* (no history is recorded).
InitVad == InitWatching("vad")
SpecVad == InitVad /\ [][NextRun]_vars

\* The program with the events of the three stages recorded, up to the
\* moment the recorded history is full.
InitStages == InitWatching("stages")
\* The history has room for another event.
Recording == Len(log) < MaxStageLog

NextStages ==
    \/ Recording /\ MainStart
    \/ Recording /\ Sigint
    \/ Recording /\ AudioRead
    \/ Recording /\ AudioGate
    \/ Recording /\ AudioSegIdle
    \/ Recording /\ AudioSegSpeech
    \/ Recording /\ AudioEnqueue
    \/ Recording /\ AudioStop
    \/ Recording /\ MainJoin
    \/ Recording /\ AsrDequeue
    \/ Recording /\ AsrExit
    \/ Recording /\ AsrTranscribe
    \/ Recording /\ AsrEnqueue
    \/ Recording /\ BrainDequeue
    \/ Recording /\ BrainExit
    \/ Recording /\ BrainReply
    \/ Recording /\ BrainSpeak
    \/ Recording /\ BrainTtsDone
SpecStages == InitStages /\ [][NextStages]_vars

\* LlamaBrain instances constructed and destroyed on any threads.
NextBackend ==
    \/ \E b \in Brains : BeCallOnce(b)
    \/ \E b \in Brains : BeCount(b)
    \/ \E b \in Brains : BeRelease(b)
    \/ \E b \in Brains : BeFree(b)

SpecBackend == Init /\ [][NextBackend]_vars

\* The state machine with its mutex, called by threads and by the observer.
NextObs ==
    \/ \E t \in SmThreads : ReCall(t)
    \/ \E t \in SmThreads : ReLock(t)
    \/ \E t \in SmThreads : ReLocked(t)
    \/ \E t \in SmThreads : ReInvoke(t)
    \/ \E t \in SmThreads : ReObsReturn(t)
    \/ \E t \in SmThreads : ReReturn(t)

SpecObs == Init /\ [][NextObs]_vars

(***************************************************************************)
(* Functions of the program applied to an argument drawn in the initial    *)
(* state.                                                                  *)
(***************************************************************************)
\* The pipeline and CoquiTTS after construction and an argument from args.
InitApplying(args) ==
    /\ CoreInit("none")
    /\ TtsConstructed
    /\ sigpipe = "default"
    /\ f_pc = "ready"
    /\ f_arg \in args
    /\ f_res = <<>>
    /\ SmConstructed
    /\ BackendStatics

\* transition_locked(cur, ev) for the argument [cur, ev].
TableApply ==
    /\ f_pc = "ready"
    /\ f_res' = transition_locked(f_arg.cur, f_arg.ev)
    /\ f_pc' = "done"
    /\ UNCHANGED <<progVars, audioVars, asrVars, brainVars, smVars, histVars,
                   obsVars, ttsVars, reVars, beVars, f_arg>>

\* The state machine with threads dispatching arbitrary events, and
\* transition_locked applied to one pair of a state and an event, the states
\* no dispatch leads to included.
InitTable == InitApplying([cur : States, ev : Events])

NextTable ==
    \/ \E t \in SmThreads, ev \in Events : SmDispatch(t, ev)
    \/ \E t \in SmThreads : SmNotify(t)
    \/ TableApply

SpecTable == InitTable /\ [][NextTable]_vars

\* The strings over an alphabet of at most n characters.
Strs(alphabet, n) == UNION {[1..k -> alphabet] : k \in 0..n}

\* w repeated n times.
Repeat(w, n) == [i \in 1..(n * Len(w)) |-> w[((i - 1) % Len(w)) + 1]]

\* The words joined by single spaces.
RECURSIVE JoinWords(_)
JoinWords(ws) ==
    IF ws = <<>> THEN <<>>
    ELSE IF Len(ws) = 1 THEN ws[1]
    ELSE ws[1] \o <<" ">> \o JoinWords(Tail(ws))

\* Words a transcript of whisper is made of here: the pieces of the
\* invocation prefixes as whisper writes them, and a command.
TranscriptWords ==
    { <<"H","e","y">>, <<"O","k","a","y",",">>, <<"o","k">>,
      <<"E","d","n","a",",">>, <<"e","t","n","a">>, <<"E","w","a">>,
      <<"E","d">>, <<"n","a","h",",">>, <<"n","a">>, <<"s","t","o","p",".">> }

WordTranscripts ==
    {JoinWords(ws) : ws \in UNION {[1..k -> TranscriptWords] : k \in 1..MaxWords}}

\* strip_invocation(f_arg); f_res is the flag returned and the text left.
StripApply ==
    /\ f_pc = "ready"
    /\ f_res' = strip_invocation(f_arg)
    /\ f_pc' = "done"
    /\ UNCHANGED <<progVars, audioVars, asrVars, brainVars, smVars, histVars,
                   obsVars, ttsVars, reVars, beVars, f_arg>>

\* Transcripts of up to MaxWords words, and those the transcriber of the
\* pipeline returns.
InitStrip == InitApplying(WordTranscripts \cup Transcripts)

NextStrip == StripApply

SpecStrip == InitStrip /\ [][NextStrip]_vars

\* Characters of the classes normalize tells apart: letters of both cases,
\* a digit, punctuation, and two kinds of whitespace.
NormChars == {"a", "B", "1", ".", " ", "\t"}

\* normalize(f_arg) and normalize of that.
NormalizeApply ==
    /\ f_pc = "ready"
    /\ f_res' = [once |-> normalize(f_arg),
                 twice |-> normalize(normalize(f_arg))]
    /\ f_pc' = "done"
    /\ UNCHANGED <<progVars, audioVars, asrVars, brainVars, smVars, histVars,
                   obsVars, ttsVars, reVars, beVars, f_arg>>

InitNormalize == InitApplying(Strs(NormChars, MaxNormLen))

NextNormalize == NormalizeApply

SpecNormalize == InitNormalize /\ [][NextNormalize]_vars

\* Params of a LlamaBrain: the defaults of llm_llama.hpp at main's n_ctx are
\* beyond MaxToks, so the limits are drawn around the minimum of 16.
PromptParams ==
    [n_ctx : {0, 64, 80}, max_new_tokens : {0, 40}, max_prompt_tokens : {0, 16, 20, 384}]

\* What tokenize_prompt returns: n tokens, with BOS in front when the
\* vocabulary adds it, and (parse_special) BOS again at position again where
\* the prompt's text spells it.
PromptTokens(n, add_bos, again) ==
    [i \in 1..n |-> IF (i = 1 /\ add_bos) \/ i = again THEN BOS ELSE i]

PromptArgs ==
    {[p |-> p, toks |-> PromptTokens(n, add_bos, again)] :
        p \in PromptParams, n \in 1..MaxToks, add_bos \in BOOLEAN,
        again \in 0..MaxToks}

\* LlamaBrain::reply from the tokenized prompt to the end of the prompt
\* decode.
PromptApply ==
    /\ f_pc = "ready"
    /\ f_res' = [toks |-> TruncatePrompt(f_arg.p, f_arg.toks),
                 decoded |-> PromptDecoded(f_arg.p,
                                 TruncatePrompt(f_arg.p, f_arg.toks))]
    /\ f_pc' = "done"
    /\ UNCHANGED <<progVars, audioVars, asrVars, brainVars, smVars, histVars,
                   obsVars, ttsVars, reVars, beVars, f_arg>>

InitPrompt == InitApplying(PromptArgs)

SpecPrompt == InitPrompt /\ [][PromptApply]_vars

\* Characters of the classes split_sentences tells apart.
ReplyChars == {"a", ".", "?", " "}

\* Replies around the soft-wrap limit: words and spaces without end
\* punctuation (one character short of the limit, and beyond it), one word
\* without a space, and a sentence that ends in a full stop.
LongReplies ==
    LET ab == <<"a", "b", " ">>
        n == SoftWrapAt \div 3
    IN  { Repeat(ab, n),
          Repeat(ab, n + 1),
          Repeat(ab, n + 2) \o <<"a", "b">>,
          Repeat(<<"a">>, SoftWrapAt + 1),
          Repeat(ab, n + 1) \o <<"a", ".">>,
          Repeat(ab, n + 1) \o <<"a", ".", " ", "b", ".">> }

\* split_sentences(f_arg).
SplitApply ==
    /\ f_pc = "ready"
    /\ f_res' = split_sentences(f_arg)
    /\ f_pc' = "done"
    /\ UNCHANGED <<progVars, audioVars, asrVars, brainVars, smVars, histVars,
                   obsVars, ttsVars, reVars, beVars, f_arg>>

InitSplit == InitApplying(Strs(ReplyChars, MaxSplitLen) \cup LongReplies)

NextSplit == SplitApply

SpecSplit == InitSplit /\ [][NextSplit]_vars

(***************************************************************************)
(* The waits of the worker threads in steps.  cv.wait(lk, pred) evaluates  *)
(* pred under the queue's mutex and, if it is false, releases the mutex    *)
(* and blocks until the condition variable is notified.  The queues change *)
(* under their mutex; g_running is stored, and the condition variables are *)
(* notified at shutdown (main.cpp 540-542), without it.  A worker is       *)
(*   "tested"   after pred was false, before it blocks,                    *)
(*   "blocked"  on the condition variable,                                 *)
(*   "missed"   blocked, having got there after the notify_all of the      *)
(*              shutdown.                                                  *)
(* A blocked worker is woken by the notify_one that follows an append to   *)
(* its queue and, unless it missed it, by the notify_all of the shutdown.  *)
(***************************************************************************)
AsrWaitTest ==
    /\ asr_pc = "wait"
    /\ a_pc # "boot"
    /\ g_running /\ audio_q = <<>>
    /\ asr_pc' = "tested"
    /\ UNCHANGED <<progVars, audioVars, audio, cmd, brainVars, smVars,
                   histVars, obsVars, extVars>>

AsrWaitBlock ==
    /\ asr_pc = "tested"
    /\ asr_pc' = (IF a_pc \in {"join", "exit"} THEN "missed" ELSE "blocked")
    /\ UNCHANGED <<progVars, audioVars, audio, cmd, brainVars, smVars,
                   histVars, obsVars, extVars>>

AsrWake ==
    /\ \/ asr_pc \in {"blocked", "missed"} /\ audio_q # <<>>
       \/ asr_pc = "blocked" /\ a_pc \in {"join", "exit"}
    /\ asr_pc' = "wait"
    /\ UNCHANGED <<progVars, audioVars, audio, cmd, brainVars, smVars,
                   histVars, obsVars, extVars>>

BrainWaitTest ==
    /\ brain_pc = "wait"
    /\ a_pc # "boot"
    /\ g_running /\ text_q = <<>>
    /\ brain_pc' = "tested"
    /\ UNCHANGED <<progVars, audioVars, asrVars, parts_left, smVars,
                   histVars, obsVars, extVars>>

BrainWaitBlock ==
    /\ brain_pc = "tested"
    /\ brain_pc' = (IF a_pc \in {"join", "exit"} THEN "missed" ELSE "blocked")
    /\ UNCHANGED <<progVars, audioVars, asrVars, parts_left, smVars,
                   histVars, obsVars, extVars>>

BrainWake ==
    /\ \/ brain_pc \in {"blocked", "missed"} /\ text_q # <<>>
       \/ brain_pc = "blocked" /\ a_pc \in {"join", "exit"}
    /\ brain_pc' = "wait"
    /\ UNCHANGED <<progVars, audioVars, asrVars, parts_left, smVars,
                   histVars, obsVars, extVars>>

\* The program with the waits in steps, the three threads scheduled fairly:
\* the microphone read and every engine call return.
NextStop ==
    \/ MainStart
    \/ Sigint
    \/ AudioRead
    \/ AudioGate
    \/ AudioSegIdle
    \/ AudioSegSpeech
    \/ AudioEnqueue
    \/ AudioStop
    \/ MainJoin
    \/ AsrWaitTest
    \/ AsrWaitBlock
    \/ AsrWake
    \/ AsrDequeue
    \/ AsrExit
    \/ AsrTranscribe
    \/ AsrEnqueue
    \/ BrainWaitTest
    \/ BrainWaitBlock
    \/ BrainWake
    \/ BrainDequeue
    \/ BrainExit
    \/ BrainReply
    \/ BrainSpeak
    \/ BrainTtsDone

SpecStop ==
    /\ Init
    /\ [][NextStop]_vars
    /\ WF_vars(MainStart \/ AudioRead \/ AudioGate \/ AudioSegIdle
                 \/ AudioSegSpeech \/ AudioEnqueue \/ AudioStop \/ MainJoin)
    /\ WF_vars(AsrWaitTest \/ AsrWaitBlock \/ AsrWake \/ AsrDequeue
                 \/ AsrExit \/ AsrTranscribe \/ AsrEnqueue)
    /\ WF_vars(BrainWaitTest \/ BrainWaitBlock \/ BrainWake \/ BrainDequeue
                 \/ BrainExit \/ BrainReply \/ BrainSpeak \/ BrainTtsDone)

\* CoquiTTS called from NumTtsThreads threads, under either disposition of
\* SIGPIPE.
InitTts ==
    /\ CoreInit("none")
    /\ TtsConstructed
    /\ sigpipe \in {"default", "ignored"}
    /\ FnIdle
    /\ SmConstructed
    /\ BackendStatics

NextTts ==
    \/ \E t \in TtsThreads : TtsCall(t)
    \/ \E t \in TtsThreads : TtsLock(t)
    \/ \E t \in TtsThreads : TtsRead(t)
    \/ \E t \in TtsThreads : TtsShutdown(t)
    \/ \E t \in TtsThreads : TtsEnsureWorker(t)
    \/ \E t \in TtsThreads : TtsSpeakStart(t)
    \/ \E t \in TtsThreads : TtsSpeakWrite(t)
    \/ \E t \in TtsThreads : TtsSpeakRead(t)
    \/ \E t \in TtsThreads : TtsSpeakPlay(t)
    \/ \E k \in Pids : KidDies(k)

SpecTts == InitTts /\ [][NextTts]_vars

InitAsr == InitWatching("asr")
SpecAsr == InitAsr /\ [][Next]_vars

\* The program with the reply and the events of each loop turn of
\* brain_thread recorded.
InitBrain == InitWatching("brain")
SpecBrain == InitBrain /\ [][Next]_vars

(***************************************************************************)
(* Properties.                                                             *)
(***************************************************************************)
\* The audio loop is inside an iteration (the frame has been read).
InIteration == a_pc \in {"gate", "seg", "enq"}

\* The step that ends an audio-loop iteration.
IterationEnds == InIteration /\ a_pc' = "read"

\* The step in which the audio thread dispatches SpeechStart.
SpeechStartDispatched == ~in_speech /\ in_speech'

\* C1: after every sequence of dispatches, made by any threads in the order
\* in which they hold the state lock, the state equals the nine-row
\* transition table applied to that sequence from Boot.
C1_StateFollowsTable == st_ = ref

\* Two threads have both transitioned and still owe their observer calls,
\* the state machine having gone all the way to Speaking.
C1_Witness ==
    /\ st_ = "Speaking"
    /\ \A t \in {1, 2} : sm_pc[t] = "notify"

\* C2 (as claimed): while the speech stage is working through the chunks of
\* a reply, the state machine is in Speaking.
C2_SpeakingWhileSpoken ==
    (brain_pc = "speak" /\ parts_left > 0) => st_ = "Speaking"

\* C3 (as claimed): asr_thread is never inside transcribe while brain_thread
\* is inside brain.reply or the speech loop.
C3_OneStageAtATime ==
    ~(asr_pc = "transcribe" /\ brain_pc \in {"reply", "speak"})

\* C4 (as claimed): an iteration that sampled Speaking, Transcribing or
\* Thinking, or found the cooldown positive, takes the gate, and the gate
\* leaves both queues empty.
C4_GateInAllBusyPhases ==
    /\ [](InIteration
            /\ (st \in {"Speaking", "Transcribing", "Thinking"}
                \/ ignore_frames > 0)
          => a_pc = "gate")
    /\ [][(a_pc = "gate" /\ a_pc' # "gate")
            => (audio_q' = <<>> /\ text_q' = <<>>)]_vars

\* C4 (amended): an iteration takes the gate exactly when it sampled Speaking
\* or found the cooldown positive; the gate drops the frame (straight back to
\* the top of the loop, segmenter buffers empty), empties the utterance queue
\* and leaves the command queue and the state machine alone.
C4_GateWhenSpeakingOrCooldown ==
    /\ [](InIteration
          => ((st = "Speaking" \/ ignore_frames > 0) <=> a_pc = "gate"))
    /\ [][(a_pc = "gate" /\ a_pc' # "gate")
            => /\ a_pc' = "read"
               /\ audio_q' = <<>>
               /\ preroll' = 0 /\ utterance' = 0 /\ ~in_speech'
               /\ text_q' = text_q
               /\ st_' = st_]_vars

\* A gated iteration of the cooldown has ended with a command still queued.
C4_Witness ==
    /\ a_pc = "read"
    /\ ignore_frames = cooldown_frames - 1
    /\ audio_q = <<>>
    /\ text_q # <<>>

\* C5 (as claimed): once the state machine has left Speaking, no frame read
\* afterwards is let through before 30 such frames have been discarded.
C5_CooldownAfterEveryLeave ==
    [][(a_pc = "read" /\ a_pc' = "seg") => owed_sm = 0]_vars

\* C5 (amended): once the audio loop has sampled Speaking, no frame is
\* processed before it has discarded 30 frames sampled as not Speaking.
C5_CooldownAfterSampledSpeaking == a_pc = "seg" => owed = 0

\* The 30th frame after the last Speaking sample is about to be discarded.
C5_Witness ==
    /\ a_pc = "gate"
    /\ st # "Speaking"
    /\ ignore_frames = 1
    /\ owed = 0

\* C6 (as claimed): whenever an audio-loop iteration ends with the state
\* machine in Speaking or the cooldown counter positive, the utterance queue
\* is empty.
C6_QueueEmptyWhileSpeaking ==
    [][(IterationEnds /\ (st_' = "Speaking" \/ ignore_frames' > 0))
        => audio_q' = <<>>]_vars

\* C6 (amended): an iteration that sampled Speaking or found the cooldown
\* positive ends with the utterance queue empty.
C6_QueueEmptyAfterGatedIteration ==
    [][(IterationEnds /\ (st = "Speaking" \/ ignore_frames > 0))
        => audio_q' = <<>>]_vars

\* An iteration that sampled Speaking has ended, asr_thread being idle, with
\* the utterance queue empty.
C6_Witness ==
    /\ a_pc = "read"
    /\ last_was_speaking
    /\ st_ = "Speaking"
    /\ asr_pc = "wait"
    /\ audio_q = <<>>

\* C7 (as claimed): SpeechStart is dispatched only in AwaitSpeech.
C7_SpeechStartOnlyInAwaitSpeech ==
    [][SpeechStartDispatched => st_ = "AwaitSpeech"]_vars

\* C7 (amended): SpeechStart is dispatched only in an ungated iteration and
\* never in Boot or CapturingSpeech; it moves AwaitSpeech to CapturingSpeech
\* and changes nothing in any other state.
C7_SpeechStartEffectOnlyInAwaitSpeech ==
    [][SpeechStartDispatched
        => /\ st # "Speaking" /\ ignore_frames = 0
           /\ st_ \notin {"Boot", "CapturingSpeech"}
           /\ st_' = (IF st_ = "AwaitSpeech" THEN "CapturingSpeech" ELSE st_)]_vars

\* SpeechStart has just been dispatched while the pipeline was busy.
C7_Witness ==
    /\ in_speech
    /\ utterance = preroll
    /\ a_pc = "read"
    /\ st_ \in {"Transcribing", "Thinking"}

\* C8 (as claimed): an utterance finalized during Transcribing or Thinking is
\* not handed to the transcriber before the state machine has been back in
\* AwaitSpeech.
C8_EarlyUtteranceWaits == asr_pc = "transcribe" => ~early_asr

\* C9: the utterance queue never holds more than one utterance.
C9_AudioQueueAtMostOne == Len(audio_q) <= 1

\* An utterance is queued, asr_thread is busy with an older one, and the
\* audio loop is about to enqueue a newer one.
C9_Witness ==
    /\ Len(audio_q) = 1
    /\ asr_pc = "transcribe"
    /\ a_pc = "enq"

\* C10 (as claimed): the command queue never holds more than one command.
C10_TextQueueAtMostOne == Len(text_q) <= 1

\* C11 (as claimed): every utterance in the utterance queue lasts at least
\* 200 ms and at most 10 s.
C11_UtteranceBetween200msAnd10s ==
    \A i \in 1..Len(audio_q) :
        /\ audio_q[i] * frame_ms >= 200
        /\ audio_q[i] * frame_ms <= 10 * 1000

\* The number of dispatches of ev in the recorded history.
Count(ev) == Cardinality({i \in 1..Len(log) : log[i].ev = ev})

\* The frame stream so far is of the shape of C12 and its trailing silence
\* has reached 20 frames (and the loop turn of the 20th frame is over).
PhraseOver == stream.ok /\ stream.trail >= 20 /\ a_pc # "enq"

\* On a stream of that shape: SpeechStart is dispatched once, on the 3rd
\* voiced frame, SpeechEndQueued once, on the 20th unvoiced frame after the
\* voice, and nothing is queued before that.
PhraseEvents ==
    stream.ok =>
        /\ Count("SpeechStart") = (IF stream.voiced >= 3 THEN 1 ELSE 0)
        /\ Count("SpeechEndQueued") = (IF stream.trail >= 20 THEN 1 ELSE 0)
        /\ stream.trail < 20 => audio_q = <<>>

\* C12 (as claimed): ... and the utterance queued lasts as long as the voiced
\* span plus 300 ms of pre-roll, give or take 20 ms.
C12_PhraseUtteranceIsVoicePlusPreroll ==
    /\ PhraseEvents
    /\ PhraseOver =>
          /\ Len(audio_q) = 1
          /\ audio_q[1] * frame_ms >= stream.voiced * frame_ms + 300 - 20
          /\ audio_q[1] * frame_ms <= stream.voiced * frame_ms + 300 + 20

\* C12 (amended): ... and the utterance queued holds the 15 frames of pre-roll
\* (of which the last 3 are the first 3 voiced frames), the other voiced
\* frames and the 20 unvoiced frames that ended it.
C12_PhraseUtteranceHasPrerollVoiceAndHangover ==
    /\ PhraseEvents
    /\ PhraseOver => audio_q = << 15 + (stream.voiced - 3) + 20 >>

\* 300 ms of silence, 500 ms of voice and 400 ms of silence have been fed
\* and the utterance is queued.
C12_Witness ==
    /\ PhraseOver
    /\ stream.voiced = 25
    /\ audio_q # <<>>

\* C13: SpeechStart is dispatched on a frame exactly when that frame and the
\* two before it were voiced frames processed while not in speech; as long
\* as none was dispatched the state is AwaitSpeech and the utterance queue
\* is empty.
C13_SpeechStartOnThirdVoicedFrame ==
    /\ (win # <<>> /\ win[Len(win)].ev = "SpeechStart")
         <=> (Len(win) = 3 /\ \A i \in 1..3 : win[i].kind = "v")
    /\ (a_pc # "boot" /\ Count("SpeechStart") = 0)
         => (st_ = "AwaitSpeech" /\ audio_q = <<>>)

\* A pop of two voiced frames has passed and nothing was dispatched.
C13_Witness ==
    /\ Len(win) = 3
    /\ win[1].kind = "v" /\ win[2].kind = "v" /\ win[3].kind = "u"
    /\ log = <<>>
    /\ st_ = "AwaitSpeech"

\* C14: of the events SpeechStart and SpeechEndQueued the audio thread
\* dispatches, the first is a SpeechStart and no SpeechEndQueued directly
\* follows another.
C14_EndOnlyAfterStart ==
    /\ Len(log) = 1 => log[1].ev = "SpeechStart"
    /\ Len(log) = 2 =>
          ~(log[1].ev = "SpeechEndQueued" /\ log[2].ev = "SpeechEndQueued")

\* An utterance was cut off by the mic gate and the next one has started:
\* two SpeechStart in a row.
C14_Witness ==
    /\ Len(log) = 2
    /\ log[1].ev = "SpeechStart"
    /\ log[2].ev = "SpeechStart"
    /\ in_speech

\* C15: an iteration that sampled Speaking or found the cooldown positive
\* dispatches nothing, counts the cooldown down if it is positive, and ends
\* with the segmenter reset (not in speech, both runs 0, utterance buffer
\* and pre-roll empty) and the utterance queue empty, so that nothing
\* captured up to then is left in any buffer a later utterance is built from.
C15_GatedIterationResets ==
    /\ [][(a_pc = "read" /\ a_pc' = "gate") => (log' = log /\ st_' = st_)]_vars
    /\ [][(IterationEnds /\ (st = "Speaking" \/ ignore_frames > 0))
            => /\ ignore_frames' =
                    (IF ignore_frames > 0 THEN ignore_frames - 1 ELSE 0)
               /\ ~in_speech' /\ voiced_run' = 0 /\ unvoiced_run' = 0
               /\ utterance' = 0 /\ preroll' = 0
               /\ audio_q' = <<>>
               /\ log' = log /\ st_' = st_ /\ ref' = ref]_vars

\* The gate has cut an utterance in progress (the last segmenter event is a
\* SpeechStart) and the cooldown is running with everything reset.
C15_Witness ==
    /\ a_pc = "read"
    /\ ignore_frames > 0
    /\ log # <<>> /\ log[Len(log)].ev = "SpeechStart"
    /\ ~in_speech /\ utterance = 0 /\ preroll = 0
    /\ audio_q = <<>>

\* The dispatches of a turn, each with the state it leaves.
TurnTrace ==
    << [ev |-> "Start", to |-> "AwaitSpeech"],
       [ev |-> "SpeechStart", to |-> "CapturingSpeech"],
       [ev |-> "SpeechEndQueued", to |-> "Transcribing"],
       [ev |-> "TranscriptReady", to |-> "Thinking"],
       [ev |-> "ReplyReady", to |-> "Speaking"],
       [ev |-> "TtsDone", to |-> "AwaitSpeech"] >>

\* C16: in a turn with one utterance, a command and a non-empty reply the
\* dispatches made are, in this order, Start, SpeechStart, SpeechEndQueued,
\* TranscriptReady, ReplyReady and one TtsDone, and they take the state from
\* Boot through AwaitSpeech, CapturingSpeech, Transcribing, Thinking and
\* Speaking back to AwaitSpeech.
C16_TurnVisitsStatesInOrder ==
    /\ Len(log) <= Len(TurnTrace)
    /\ \A i \in 1..Len(log) : log[i] = TurnTrace[i]
    /\ st_ = (IF log = <<>> THEN "Boot" ELSE log[Len(log)].to)

\* The turn is over: all six dispatches were made, the reply had two
\* chunks, and the cooldown is running.
C16_Witness ==
    /\ log = TurnTrace
    /\ brain_pc = "wait"
    /\ ignore_frames > 0

\* C17: whenever the state is Transcribing, Thinking or Speaking, it is
\* AwaitSpeech again later.
C17_ReturnsToAwaitSpeech ==
    (st_ \in {"Transcribing", "Thinking", "Speaking"}) ~> (st_ = "AwaitSpeech")

\* The state is back in AwaitSpeech after a reply whose synthesis failed
\* with the worker dead, and the cooldown is running.
C17_Witness ==
    /\ st_ = "AwaitSpeech"
    /\ ~enabled_
    /\ brain_pc = "wait"
    /\ ignore_frames > 0

\* The event C18 names for a transcript.
ClaimedAsrEvent(raw) ==
    LET t == trim_ws(raw)
    IN  IF Len(t) < 2 \/ t = BLANK_AUDIO
        THEN [ev |-> "NoCommand", note |-> "blank audio"]
        ELSE IF \A i \in 1..Len(InvocationPrefixes) :
                   ~StartsWith(normalize(t), InvocationPrefixes[i])
        THEN [ev |-> "NoCommand", note |-> "ignored transcript"]
        ELSE IF trim_ws(strip_invocation(t).text) = <<>>
        THEN [ev |-> "NoCommand", note |-> "invocation only"]
        ELSE [ev |-> "TranscriptReady", note |-> ""]

ClaimedAsrEvents == [raw \in Transcripts |-> ClaimedAsrEvent(raw)]

DecodeFailedMark == <<"(","d","e","c","o","d","e"," ","f","a","i","l","e","d">>
DecodeFailed == [reply \in Replies |-> Find(reply, DecodeFailedMark) # 0]

NoCommandEmptyReply == [ev |-> "NoCommand", note |-> "empty reply"]
ReplyReadyEv == [ev |-> "ReplyReady", note |-> ""]
TtsDoneEv == [ev |-> "TtsDone", note |-> ""]

\* The events of a loop turn of brain_thread: nothing before the reply,
\* ReplyReady while the chunks are spoken, and at the end of the turn either
\* NoCommand("empty reply"), for a reply that is empty after stripping, or
\* ReplyReady and TtsDone.
BrainTurnEvents ==
    /\ brain_pc = "reply" => log = <<Taken>>
    /\ brain_pc = "speak" => log = <<Taken, ReplyReadyEv>> /\ Stripped[heard] # <<>>
    /\ (brain_pc \in {"wait", "done"} /\ log # <<>>) =>
          IF Stripped[heard] = <<>>
          THEN log = <<Taken, NoCommandEmptyReply>>
          ELSE log = <<Taken, ReplyReadyEv, TtsDoneEv>>

\* C19 as stated: for every command brain_thread dequeues it dispatches
\* either one NoCommand("empty reply"), for a reply empty after stripping, or
\* one ReplyReady followed by one TtsDone, whatever the speech stage does;
\* a reply carrying the decode-failure text takes the ReplyReady/TtsDone
\* path.
C19_DecodeFailureTakesReplyReadyPath ==
    /\ BrainTurnEvents
    /\ (brain_pc \in {"wait", "done"} /\ log # <<>> /\ DecodeFailed[heard]) =>
          log = <<Taken, ReplyReadyEv, TtsDoneEv>>

\* C19 amended: for every command brain_thread dequeues it dispatches either
\* one NoCommand("empty reply"), for a reply empty after stripping, or one
\* ReplyReady followed by one TtsDone, whatever the speech stage does; a
\* reply carrying the decode-failure text takes the ReplyReady/TtsDone path
\* when text is left after stripping, and the NoCommand("empty reply") path
\* when a stop marker precedes all of its text.
C19_DecodeFailureTakesReplyReadyPathUnlessStrippedEmpty ==
    /\ BrainTurnEvents
    /\ (brain_pc \in {"wait", "done"} /\ log # <<>> /\ DecodeFailed[heard]) =>
          IF Stripped[heard] # <<>>
          THEN log = <<Taken, ReplyReadyEv, TtsDoneEv>>
          ELSE log = <<Taken, NoCommandEmptyReply>>

\* A turn whose reply carries the decode-failure text after "Ok" has ended
\* with ReplyReady and TtsDone although the speech stage went dead.
C19_Witness ==
    /\ brain_pc = "wait"
    /\ ~enabled_
    /\ heard = <<"O","k"," ","(","d","e","c","o","d","e"," ","f","a","i","l","e","d",")">>
    /\ log = <<Taken, ReplyReadyEv, TtsDoneEv>>

\* C20 as stated: a chunk whose synthesis or playback fails is the only one
\* skipped; each call of the speech stage, failed or not, leaves every later
\* chunk of the reply still to be submitted before TtsDone.
C20_FailedChunkSkipsOnlyItself ==
    [][(brain_pc = "speak" /\ parts_left' # parts_left)
         => parts_left' = parts_left - 1]_vars

\* C21 as stated: once a call has found the worker dead or unusable, the
\* stage is disabled and the worker stopped, and it stays so: is_enabled()
\* is false, no worker child is left, and no speak is at a write to or a
\* read from a pipe.
C21_DeadWorkerDisablesStage ==
    found_dead =>
      /\ proc = "running"
      /\ ~enabled_
      /\ worker_ = NoWorker
      /\ \A k \in Pids : kids[k] \in {"unborn", "reaped"}
      /\ \A t \in TtsThreads : tts_pc[t] \notin {"write", "read"}

\* C30 as stated: a thread in the playback of speak does not hold m_ (so a
\* call of another thread can take it), and no field guarded by m_ has been
\* written without m_ held.
C30_PlaybackUnlockedAndFieldsGuarded ==
    /\ \A t \in TtsThreads : tts_pc[t] = "play" => m_ # t
    /\ bare = {}

\* C22 as stated: once SIGINT has set g_running to false the program
\* terminates: the audio loop exits, Stop is dispatched, both workers leave
\* their loops, wherever they were when the flag changed, and are joined,
\* and main returns.
C22_SigintTerminates ==
    (~g_running) ~> (a_pc = "exit" /\ asr_pc = "done" /\ brain_pc = "done")

\* The row of the transition table for (cur, ev), if any.
Listed(cur, ev) == \E r \in TableRows : r[1] = cur /\ r[2] = ev

\* C23: transition_locked reports no transition and returns cur for every
\* pair (cur, ev) that is not in the transition table, so for Stop and Fail
\* in every state and for every event in Shutdown; and a dispatch changes
\* st_, or leaves an observer call to make, only for a pair in the table.
C23_UnlistedPairIsNoOp ==
    /\ [](f_pc = "done" =>
            /\ ~Listed(f_arg.cur, f_arg.ev) =>
                  (~f_res.did /\ f_res.to = f_arg.cur)
            /\ f_arg.ev \in {"Stop", "Fail"} => ~f_res.did
            /\ f_arg.cur = "Shutdown" => ~f_res.did)
    /\ [][\A t \in SmThreads :
            (st_' # st_ \/ sm_pend'[t] # sm_pend[t]) /\ sm_pc'[t] = "notify"
              /\ sm_pc[t] = "idle"
              => /\ <<sm_pend'[t].from, sm_pend'[t].ev, sm_pend'[t].to>>
                      \in TableRows
                 /\ sm_pend'[t].from = st_
                 /\ sm_pend'[t].to = st_']_vars
    /\ [][st_' # st_ =>
            \E t \in SmThreads : sm_pc[t] = "idle" /\ sm_pc'[t] = "notify"]_vars

\* Stop was applied to Shutdown without a transition, and the dispatches
\* made meanwhile (most of them of pairs outside the table) have led to
\* Speaking.
C23_Witness ==
    /\ f_pc = "done"
    /\ f_arg = [cur |-> "Shutdown", ev |-> "Stop"]
    /\ ~f_res.did
    /\ st_ = "Speaking"

\* C24: a dispatch that made a transition has invoked the observer once,
\* with the transition's from, to, event and note, when it returns, and one
\* that made none has not invoked it; m_ is not held by a thread whose
\* observer is running, and whoever holds m_ is in the block that releases
\* it, so that a call of state() or dispatch made by the observer, or by
\* another thread meanwhile, gets m_.
C24_ObserverOnceOutsideLock ==
    /\ [](\A t \in SmThreads :
            /\ At(t, "ret") =>
                  IF Top(t).did
                  THEN /\ Top(t).calls = 1
                       /\ Top(t).seen = <<Top(t).from, Top(t).to, Top(t).ev,
                                          Top(t).note>>
                       /\ <<Top(t).from, Top(t).ev, Top(t).to>> \in TableRows
                  ELSE Top(t).calls = 0
            /\ At(t, "in_obs") => sm_m # t
            /\ sm_m = t => At(t, "locked"))
    /\ [][\A t \in SmThreads :
            (At(t, "locked") /\ sm_stack'[t] # <<>> /\ Len(sm_stack'[t]) = Len(sm_stack[t])
               /\ sm_stack'[t][Len(sm_stack'[t])].pc = "unlocked")
              => LET f == sm_stack'[t][Len(sm_stack'[t])]
                 IN  /\ f.did = (st_' # st_)
                     /\ f.from = st_
                     /\ f.to = st_']_vars

\* The observer of thread 1, invoked for Start, has called dispatch, which
\* made a transition of its own and invoked the observer again, while
\* thread 2 holds m_.
C24_Witness ==
    /\ Len(sm_stack[1]) = 2
    /\ sm_stack[1][1].pc = "in_obs"
    /\ sm_stack[1][1].ev = "Start"
    /\ sm_stack[1][2].pc = "in_obs"
    /\ sm_stack[1][2].did
    /\ sm_m = 2

\* C25 as stated: llama_backend_free runs only when no acquisition is
\* outstanding: in the step that runs it the count is 0 and no instance
\* holds an acquisition.
C25_TeardownOnlyWhenNoneOutstanding ==
    [][\A b \in Brains :
         (be_pc[b] = "freeing" /\ be_pc'[b] = "none")
           => /\ g_backend_refcnt = 0
              /\ \A c \in Brains : be_pc[c] # "held"]_vars

\* C26 as stated: whenever the acquisition count is positive the backend is
\* initialized and not torn down.
C26_BackendLiveWhileAcquired ==
    g_backend_refcnt > 0 => backend = "init"

\* C27 as stated: the remainder strip_invocation returns is the normalized
\* transcript with the longest listed prefix it starts with removed, then
\* trimmed.
C27_LongestPrefixRemoved ==
    f_pc = "done" =>
        LET t == normalize(f_arg)
            hits == {i \in 1..Len(InvocationPrefixes) :
                        StartsWith(t, InvocationPrefixes[i])}
        IN  hits # {} =>
              LET i == CHOOSE j \in hits : \A h \in hits :
                           Len(InvocationPrefixes[h]) <= Len(InvocationPrefixes[j])
              IN  /\ f_res.invoked
                  /\ f_res.text =
                        trim_ws(SubSeq(t, Len(InvocationPrefixes[i]) + 1, Len(t)))

\* C28: normalize is idempotent, and its output is lower-case, holds only
\* alphanumerics and single spaces, and neither starts nor ends with a space.
C28_NormalizeIdempotent ==
    f_pc = "done" =>
        LET o == f_res.once
        IN  /\ f_res.twice = o
            /\ \A i \in 1..Len(o) :
                  /\ o[i] = " " \/ isalnum(o[i])
                  /\ tolower(o[i]) = o[i]
                  /\ i < Len(o) => ~(o[i] = " " /\ o[i + 1] = " ")
            /\ o # <<>> => (o[1] # " " /\ o[Len(o)] # " ")

\* normalize was applied to a string with an upper-case letter, punctuation
\* and two kinds of whitespace, which it changed.
C28_Witness ==
    /\ f_pc = "done"
    /\ f_arg = <<"B", ".", "\t", "a">>
    /\ f_res.once = <<"b", " ", "a">>

\* The fragments of C29: the input cut after each '.', '!' or '?' that is
\* followed by whitespace or by the end, every piece trimmed, the empty
\* ones left out.
RECURSIVE ClaimedFragments(_, _)
ClaimedFragments(in, start) ==
    IF start > Len(in) THEN <<>>
    ELSE LET ends == {i \in start..Len(in) :
                        /\ in[i] \in {".", "!", "?"}
                        /\ (i = Len(in) \/ in[i + 1] \in {" ", "\t", "\n", "\r"})}
             e == IF ends = {} THEN Len(in)
                  ELSE CHOOSE i \in ends : \A j \in ends : i <= j
             p == trim_ws(SubSeq(in, start, e))
         IN  (IF p = <<>> THEN <<>> ELSE <<p>>) \o ClaimedFragments(in, e + 1)

\* The fragments one after the other.
RECURSIVE Flatten(_)
Flatten(fs) == IF fs = <<>> THEN <<>> ELSE fs[1] \o Flatten(Tail(fs))

\* s without its whitespace.
Squeeze(s) == SelectSeq(s, LAMBDA c : ~isspace(c))

\* Every fragment is trimmed and not empty, and the fragments in their
\* order hold the characters of the input except whitespace.
FragmentsCoverInput ==
    /\ \A k \in 1..Len(f_res) :
          f_res[k] # <<>> /\ trim_ws(f_res[k]) = f_res[k]
    /\ Squeeze(Flatten(f_res)) = Squeeze(f_arg)

\* C29 as stated: split_sentences returns exactly the fragments that end at
\* a '.', '!' or '?' followed by whitespace or the end of the input, and the
\* text after the last of them; they are trimmed, not empty, in input order
\* and together the input without the whitespace between them.
C29_FragmentsAtTerminators ==
    f_pc = "done" =>
        /\ f_res = ClaimedFragments(f_arg, 1)
        /\ FragmentsCoverInput

\* C29 amended: that holds unless the walk yields a single fragment of more
\* than 180 characters; such a fragment is returned in several pieces of at
\* most 180 characters each.  In both cases the fragments are trimmed, not
\* empty, and hold the input's characters in order.
C29_FragmentsAtTerminatorsUnlessWrapped ==
    f_pc = "done" =>
        LET walk == ClaimedFragments(f_arg, 1)
        IN  /\ IF Len(walk) = 1 /\ Len(walk[1]) > 180
               THEN /\ Len(f_res) > 1
                    /\ \A k \in 1..Len(f_res) : Len(f_res[k]) <= 180
               ELSE f_res = walk
            /\ FragmentsCoverInput

\* split_sentences was applied to a reply with a '.' followed by a letter, a
\* '?' followed by a space, and text after it: two fragments.
C29_Witness ==
    /\ f_pc = "done"
    /\ f_arg = <<"a", ".", "a", "?", " ", "a">>
    /\ f_res = << <<"a", ".", "a", "?">>, <<"a">> >>

\* C31 as stated: a tokenized prompt longer than the allowed prompt length
\* is cut to its tail with the beginning-of-sequence token in front, and no
\* more prompt tokens than the allowed length are decoded.
C31_TruncatedPromptWithinLimit ==
    (f_pc = "done" /\ Len(f_arg.toks) > max_prompt(f_arg.p)) =>
        LET n == Len(f_res.toks)
            k == Len(f_arg.toks)
        IN  /\ f_res.toks[1] = BOS
            /\ \/ f_res.toks = SubSeq(f_arg.toks, k - n + 1, k)
               \/ Tail(f_res.toks) = SubSeq(f_arg.toks, k - n + 2, k)
            /\ f_res.decoded <= max_prompt(f_arg.p)

\* The worker children that exist: forked and not reaped.
Children == {k \in Pids : kids[k] \in {"alive", "exited"}}

\* C32: a step that stops the worker has written to it (the line __quit__),
\* leaves its child reaped and worker_ reset to pid -1, descriptors -1 and
\* not ready; at most one worker child exists at any time; and shutdown with
\* no worker running changes no member and no child.
C32_StopReapsAndAtMostOneWorker ==
    [][/\ \A k \in Pids :
            (worker_.pid = k /\ worker_' # worker_) =>
                /\ kids'[k] = "reaped"
                /\ worker_' = [to_child |-> -1, from_child |-> -1,
                               pid |-> -1, ready |-> FALSE]
                /\ \E t \in TtsThreads : m_ = t /\ tts_wrote'[t]
       /\ Cardinality(Children') <= 1
       /\ \A t \in TtsThreads :
            (tts_pc[t] = "locked" /\ tts_op[t] = "shutdown"
               /\ tts_pc'[t] = "idle" /\ worker_.pid <= 0) =>
                UNCHANGED <<enabled_, worker_, last_err_, kids, proc>>]_vars

\* shutdown() has stopped the first worker, which had answered READY and
\* was still running, and a later call has started the second.
C32_Witness ==
    /\ proc = "running"
    /\ ~found_dead
    /\ kids[1] = "reaped"
    /\ kids[2] = "alive"
    /\ worker_.pid = 2
    /\ worker_.ready

\* The recorded dispatches of ev by asr_thread, and those by brain_thread.
AsrCount(ev) ==
    Cardinality({i \in 1..Len(log) :
                    log[i].ev = ev /\ log[i].note # "empty reply"})
BrainCount(ev) ==
    Cardinality({i \in 1..Len(log) :
                    log[i].ev = ev /\ (ev = "NoCommand" => log[i].note = "empty reply")})

\* C33: an utterance is in the utterance queue or with asr_thread only after
\* its SpeechEndQueued, a command is in the command queue or with
\* brain_thread only after its TranscriptReady, and the events of a turn
\* are dispatched in the order SpeechEndQueued, TranscriptReady, ReplyReady
\* or NoCommand, TtsDone: at every moment the utterances handed on are no
\* more than the SpeechEndQueued dispatched, the commands handed on no more
\* than the TranscriptReady dispatched, and the TtsDone no more than the
\* ReplyReady.
C33_HandOffAfterEvent ==
    watch = "stages" =>
        /\ Len(audio_q) + (IF asr_pc = "transcribe" THEN 1 ELSE 0)
              + AsrCount("TranscriptReady") + AsrCount("NoCommand")
              <= Count("SpeechEndQueued")
        /\ Len(text_q) + (IF brain_pc = "reply" THEN 1 ELSE 0)
              + BrainCount("ReplyReady") + BrainCount("NoCommand")
              <= AsrCount("TranscriptReady")
        /\ Count("TtsDone") + (IF brain_pc = "speak" THEN 1 ELSE 0)
              = BrainCount("ReplyReady")

\* A turn has been through all stages, its four events dispatched in order,
\* and the utterance of the next turn is in the utterance queue, its
\* SpeechEndQueued dispatched.
C33_Witness ==
    /\ watch = "stages"
    /\ Len(log) = 5
    /\ log[1].ev = "SpeechEndQueued"
    /\ log[2].ev = "TranscriptReady"
    /\ log[3].ev = "ReplyReady"
    /\ log[4].ev = "TtsDone"
    /\ log[5].ev = "SpeechEndQueued"
    /\ audio_q # <<>>

\* C34 as stated: a NoCommand of asr_thread changes the state only from
\* Transcribing (never from Thinking, where brain_thread is at work on a
\* command), and the ReplyReady of brain_thread finds the state Thinking.
C34_OutcomeAppliesToOwnTurn ==
    [][/\ (asr_pc = "transcribe" /\ asr_pc' = "wait" /\ st_' # st_)
            => st_ = "Transcribing"
       /\ (brain_pc = "reply" /\ brain_pc' = "speak")
            => st_ = "Thinking"]_vars

\* C35: whenever the state is CapturingSpeech the segmenter is in speech,
\* the cooldown counter is 0 and the frame at hand is not gated; the state
\* becomes CapturingSpeech only in the loop turn of the audio thread that
\* sets in_speech, and stops being CapturingSpeech only in the loop turn
\* that clears in_speech at the stop trigger, by SpeechEndQueued.
C35_CapturingSpeechIsInSpeech ==
    [][/\ st_' = "CapturingSpeech"
            => (in_speech' /\ ignore_frames' = 0 /\ a_pc' # "gate")
       /\ (st_ # "CapturingSpeech" /\ st_' = "CapturingSpeech")
            => (a_pc = "seg" /\ ~in_speech /\ in_speech')
       /\ (st_ = "CapturingSpeech" /\ st_' # "CapturingSpeech")
            => (a_pc = "seg" /\ in_speech /\ ~in_speech'
                  /\ st_' = "Transcribing")]_vars

\* The state is CapturingSpeech while brain_thread is between its ReplyReady
\* and its TtsDone, and asr_thread holds an utterance: their events will be
\* dispatched in CapturingSpeech.
C35_Witness ==
    /\ st_ = "CapturingSpeech"
    /\ in_speech
    /\ brain_pc = "speak"
    /\ asr_pc = "transcribe"

\* C36: whenever the state is Speaking, brain_thread is between its
\* ReplyReady and its TtsDone; the state becomes Speaking only in the step
\* of brain_thread that dispatches ReplyReady and stops being Speaking only
\* in its step that dispatches TtsDone.
C36_SpeakingIsBrainSpeaking ==
    [][/\ st_' = "Speaking" => brain_pc' = "speak"
       /\ (st_ # "Speaking" /\ st_' = "Speaking")
            => (brain_pc = "reply" /\ brain_pc' = "speak")
       /\ (st_ = "Speaking" /\ st_' # "Speaking")
            => (brain_pc = "speak" /\ parts_left = 0 /\ brain_pc' = "wait"
                  /\ st_' = "AwaitSpeech")]_vars

\* The state is Speaking while asr_thread holds an utterance and the audio
\* loop is in an ungated turn: their events will be dispatched in Speaking.
C36_Witness ==
    /\ st_ = "Speaking"
    /\ asr_pc = "transcribe"
    /\ a_pc = "seg"

\* C37: the pre-roll never holds more than 15 frames and, while the
\* segmenter is not in speech, at least voiced_run frames; the loop turn
\* that dispatches SpeechEndQueued leaves an utterance of at least 3 + 20
\* frames (460 ms) and goes on to the enqueue, never to the drop of an
\* utterance shorter than 200 ms; and the enqueue puts that utterance into
\* the utterance queue.
C37_FinalizedUtteranceIsEnqueued ==
    [][/\ preroll' <= 15
       /\ ~in_speech' => preroll' >= voiced_run'
       /\ (a_pc = "seg" /\ in_speech /\ ~in_speech')
            => /\ a_pc' = "enq"
               /\ utterance' >= 3 + 20
               /\ utterance' * frame_ms >= 460
       /\ a_pc = "enq" => utterance >= 3 + 20
       /\ (a_pc = "enq" /\ a_pc' # "enq") => audio_q' = <<utterance>>]_vars

\* The shortest utterance has been finalized: SpeechStart on the third
\* frame of a pre-roll that was empty, and 20 unvoiced frames.
C37_Witness ==
    /\ watch = "vad"
    /\ a_pc = "enq"
    /\ utterance = 23
    /\ preroll = 15

\* brain_thread takes the front of the command queue.
TakesFront == text_q # <<>> /\ text_q' = Tail(text_q)

\* C38 as stated: the command queue changes only by an append at the back
\* by asr_thread, of a command that is trimmed, not empty and not the
\* blank-audio sentinel, or by brain_thread taking its front, which then
\* goes on to brain.reply (the skip of an empty text is not taken); the mic
\* gate leaves the queue alone; and under fair scheduling brain_thread
\* comes back for the next command after every command and takes the front
\* of a queue that is not empty, also after SIGINT.
C38_NoCommandLost ==
    /\ [][/\ text_q' # text_q =>
                \/ /\ asr_pc = "enq"
                   /\ text_q' = Append(text_q, cmd)
                   /\ cmd # <<>> /\ trim_ws(cmd) = cmd /\ cmd # BLANK_AUDIO
                \/ /\ TakesFront
                   /\ brain_pc' = "reply"
          /\ (brain_pc # "reply" /\ brain_pc' = "reply") => TakesFront
          /\ (a_pc = "gate" /\ a_pc' # "gate") => text_q' = text_q]_vars
    /\ [](brain_pc \in {"reply", "speak"} => <>(brain_pc = "wait"))
    /\ []((text_q # <<>> /\ brain_pc \notin {"reply", "speak"})
            => <>(brain_pc = "reply"))

\* C39: the state machine is never in Error or Shutdown in any run of the
\* program, and the dispatch of Stop in the shutdown sequence leaves the
\* state what it was.
C39_ErrorAndShutdownUnreached ==
    /\ [](st_ \notin {"Error", "Shutdown"})
    /\ [][(a_pc = "read" /\ a_pc' = "join") => st_' = st_]_vars

\* Stop has been dispatched, main has returned, and the state is still the
\* working state it was in.
C39_Witness ==
    /\ a_pc = "exit"
    /\ ~g_running
    /\ st_ \in {"CapturingSpeech", "Transcribing", "Thinking"}

\* C40: observer calls are made in the order of the transitions: a thread
\* never starts its observer call while another thread still has to make
\* the call for the transition that came before (the one whose 'to' is this
\* call's 'from'), so the 'to' of each call is the 'from' of the next.
\* With two threads and no two rows of the table leading back and forth
\* between two states, a pending call whose 'to' is this call's 'from' is
\* the call of the earlier transition.
C40_NotificationsInTransitionOrder ==
    [][\A t \in SmThreads :
          (sm_pc[t] = "notify" /\ sm_pc'[t] = "idle") =>
              \A u \in SmThreads \ {t} :
                  ~(/\ sm_pc[u] = "notify"
                    /\ sm_pend[u].to = sm_pend[t].from)]_vars
====
